---- MODULE Spec2Model ----
(***************************************************************************)
(* Universal Email Automation Engine: the delivery orchestrator            *)
(* (generateEmailDraft, generateBatchDrafts), its configuration layer and  *)
(* the recipient directory, over an abstract Gmail mailbox.                *)
(*                                                                         *)
(* A subject is a sequence of word tokens; String.indexOf is containment   *)
(* of a contiguous sub-sequence.  Draft ids are positions in the draft     *)
(* list (drafts are never deleted by the engine); 0 stands for null.       *)
(***************************************************************************)
EXTENDS Integers, Sequences, FiniteSets, TLC

VARIABLES drafts, threads, directory, distroCacheData, distroCacheId, last,
          batch, now, call, properties, triggers

vars == <<drafts, threads, directory, distroCacheData, distroCacheId, last,
          batch, now, call, properties, triggers>>

\* ------------------------------------------------------------------ bounds
MaxDrafts == 3
MaxBatch == 5
MaxArgs == 2
MaxInner == 3
MaxWords == 2
MaxNowOffset == 6
MaxRows == 3
MaxRangeLen == 5
MaxKey == 2
MaxBody == 3
MaxCalls == 3

\* ------------------------------------------------------- program constants
MAX_EXECUTION_TIME == 300000
RATE_LIMIT_DELAY == 500
SEARCH_LIMIT == 5
DEFAULT_COL_WIDTH == 100

NullId == 0

\* the calendar: day 0 is 1-Jan-2026, a Thursday; the README renders its
\* examples on 15-Feb-2026, day 45
EPOCH_YEAR == 2026
EPOCH_WEEKDAY == 4
README_TODAY == 45
NoData == [loaded |-> FALSE, rows |-> <<>>, emailIndex |-> 0, tagIndices |-> <<>>]

\* ---------------------------------------------------------------- helpers
Range(s) == {s[i] : i \in 1..Len(s)}

\* a result list returned without the Set round trip
DedupeNone(s) == s

\* [...new Set(s)]: keeps the first occurrence of every element
Dedupe(s) ==
  LET F[i \in 0..Len(s)] ==
        IF i = 0 THEN <<>>
        ELSE IF s[i] \in Range(F[i - 1]) THEN F[i - 1] ELSE Append(F[i - 1], s[i])
  IN F[Len(s)]

\* headers.indexOf(col): 1-based position of the first match, 0 when absent
IndexOf(s, x) ==
  IF x \in Range(s) THEN CHOOSE i \in 1..Len(s) : s[i] = x /\ \A j \in 1..(i - 1) : s[j] # x
  ELSE 0

\* String.toLowerCase on the word tokens of the model
Lower(w) ==
  CASE w = "Ops" -> "ops"
    [] w = "OOO:" -> "ooo:"
    [] w = "Re:" -> "re:"
    [] OTHER -> w

\* hay.indexOf(needle) !== -1
Contains(hay, needle) ==
  \E i \in 0..(Len(hay) - Len(needle)) :
     \A k \in 1..Len(needle) : hay[i + k] = needle[k]

\* the concatenation of a sequence of sequences
RECURSIVE Flatten(_)
Flatten(seqs) == IF seqs = <<>> THEN <<>> ELSE Head(seqs) \o Flatten(Tail(seqs))

\* ------------------------------------------------------------ configuration
DEFAULTS ==
  [templateDocumentId |-> "INSERT_TEMPLATE_DOC_ID",
   directorySheetId |-> "INSERT_DIRECTORY_SHEET_ID",
   recipientsTabName |-> "Recipients_Master",
   senderProfilesTabName |-> "Sender_Profiles",
   recipientEmailColumn |-> "Email",
   recipientTagColumns |-> <<"Role", "Team", "Department">>,
   linkRepositorySheetId |-> "INSERT_LINK_SHEET_ID",
   linkRepositoryTabName |-> "Link_Registry",
   linkKeyColumn |-> "Link_Key",
   linkUrlColumn |-> "Target_URL",
   logoFileId |-> "INSERT_LOGO_FILE_ID",
   signatureTemplateTab |-> "Signature_Template",
   logsTabName |-> "System_Logs"]

\* this.settings = { ...DEFAULTS, ...overrides }
AppConfig(overrides) == overrides @@ DEFAULTS

validateConfig(config) ==
  LET e1 == IF config.templateDocumentId = "" \/ config.templateDocumentId = "PASTE_TEMPLATE_DOC_ID"
            THEN <<"templateDocumentId is not set">> ELSE <<>>
      e2 == IF config.directorySheetId = "" \/ config.directorySheetId = "PASTE_DIRECTORY_SHEET_ID"
            THEN <<"directorySheetId is not set">> ELSE <<>>
      e3 == IF config.linkRepositorySheetId = "" \/ config.linkRepositorySheetId = "PASTE_LINK_SHEET_ID"
            THEN <<"linkRepositorySheetId is not set">> ELSE <<>>
      e4 == IF config.recipientsTabName = "" THEN <<"recipientsTabName is empty">> ELSE <<>>
      e5 == IF config.senderProfilesTabName = "" THEN <<"senderProfilesTabName is empty">> ELSE <<>>
      e6 == IF config.linkRepositoryTabName = "" THEN <<"linkRepositoryTabName is empty">> ELSE <<>>
      e7 == IF config.signatureTemplateTab = "" THEN <<"signatureTemplateTab is empty">> ELSE <<>>
      e8 == IF config.recipientEmailColumn = "" THEN <<"recipientEmailColumn is empty">> ELSE <<>>
      e9 == IF config.linkKeyColumn = "" THEN <<"linkKeyColumn is empty">> ELSE <<>>
      e10 == IF config.linkUrlColumn = "" THEN <<"linkUrlColumn is empty">> ELSE <<>>
      e11 == IF Len(config.recipientTagColumns) = 0
             THEN <<"recipientTagColumns must be a non-empty array">> ELSE <<>>
      errors == e1 \o e2 \o e3 \o e4 \o e5 \o e6 \o e7 \o e8 \o e9 \o e10 \o e11
  IN [valid |-> Len(errors) = 0, errors |-> errors]

\* --------------------------------------------------- the deployment's world
\* The template document: tab name -> parsed sections (resolved subject, raw
\* To / Cc keys).  A tab without a [SUBJECT] section has the subject "".
TemplateDoc ==
  [Ops |-> [subject |-> <<"Ops">>, to |-> <<"RoleA">>, cc |-> <<"boss@x">>],
   NoRcpt |-> [subject |-> <<"Rpt">>, to |-> <<>>, cc |-> <<>>]]

DocIds == {"doc1"}
TabNames == {"Ops", "NoRcpt", "Missing"}
OPERATOR_EMAIL == "me@x"

\* the deployed overrides of the README runner and variations of them
Deployed == [templateDocumentId |-> "doc1", directorySheetId |-> "dirA",
             linkRepositorySheetId |-> "links1"]

\* generateEmailDraft(name) without a second argument: userOverrides = {}
NoOverrides == [k \in {} |-> ""]

OverrideChoices ==
  { Deployed,
    [emailAction |-> "SEND"] @@ Deployed,
    [recipientsTabName |-> ""] @@ Deployed,
    NoOverrides }

\* directory spreadsheets: sheet id -> tab -> table (header row first)
DirectoryChoices ==
  { [dirA |-> [Recipients_Master |->
                 << <<"Email", "Role", "Team">>,
                    <<"a@x", "RoleA", "T1">>,
                    <<"b@x", "RoleB", "RoleA">> >>,
               Archive |->
                 << <<"Email", "Role">>,
                    <<"d@x", "RoleA">>,
                    <<"a@x", "RoleB">> >>],
     dirB |-> [Recipients_Master |->
                 << <<"Email", "Role">>,
                    <<"c@x", "RoleA">> >>],
     dirC |-> [Recipients_Master |->
                 << <<"Mail", "Role">>,
                    <<"e@x", "RoleA">> >>]] }

Addresses == {"a@x", "b@x", "c@x", "d@x", "e@x", "boss@x", "bob@x", "me@x"}

\* a.includes("@")
IsAddress(a) == a \in Addresses

\* ------------------------------------------------------- RecipientService
\* resolveRecipients(config, ...args) over the module-level cache
\* (cData, cId); returns the address list, the cache after the call and
\* whether the directory spreadsheet was opened.
\* the cache check of line 34, with the sheet id left out of it
NeedFetchIgnoringId(cData, cId, sheetId) == ~cData.loaded

\* !_DISTRO_CACHE_DATA || _DISTRO_CACHE_ID !== sheetId
NeedFetch(cData, cId, sheetId) == ~cData.loaded \/ cId # sheetId

\* the try block of lines 36-60 completes: the spreadsheet opens, the tab
\* exists, the email column and at least one tag column are in the headers
DirectoryLoads(config, dir) ==
  /\ config.directorySheetId \in DOMAIN dir
  /\ config.recipientsTabName \in DOMAIN dir[config.directorySheetId]
  /\ LET headers == Head(dir[config.directorySheetId][config.recipientsTabName])
     IN /\ config.recipientEmailColumn \in Range(headers)
        /\ \E col \in Range(config.recipientTagColumns) : col \in Range(headers)

\* a failed load that drops what the cache held
FailedLoadClearsCache(cData, cId) ==
  [result |-> <<>>, data |-> NoData, id |-> "", opened |-> TRUE]

\* the catch block of lines 61-64: [] is returned, the cache is not assigned
FailedLoad(cData, cId) ==
  [result |-> <<>>, data |-> cData, id |-> cId, opened |-> TRUE]

resolveRecipients(config, args, cData, cId, dir) ==
  IF Len(args) = 0
  THEN [result |-> <<>>, data |-> cData, id |-> cId, opened |-> FALSE]
  ELSE
    LET sheetId == config.directorySheetId
        tabName == config.recipientsTabName
        targetEmailCol == config.recipientEmailColumn
        targetTagCols == config.recipientTagColumns
        needFetch == NeedFetch(cData, cId, sheetId)
        table == dir[sheetId][tabName]
        headers == Head(table)
        emailColIndex == IndexOf(headers, targetEmailCol)
        tagIndices == SelectSeq([i \in 1..Len(targetTagCols) |-> IndexOf(headers, targetTagCols[i])],
                                LAMBDA i : i # 0)
        loadOk == DirectoryLoads(config, dir)
        cache == IF needFetch
                 THEN [loaded |-> TRUE, rows |-> Tail(table),
                       emailIndex |-> emailColIndex, tagIndices |-> tagIndices]
                 ELSE cData
        directEmails == SelectSeq(args, LAMBDA a : IsAddress(a))
        lookups == SelectSeq(args, LAMBDA a : ~IsAddress(a))
        matched == SelectSeq(cache.rows,
                     LAMBDA row : \E k \in 1..Len(cache.tagIndices) :
                        /\ cache.tagIndices[k] <= Len(row)
                        /\ row[cache.tagIndices[k]] \in Range(lookups))
        foundEmails == [i \in 1..Len(matched) |-> matched[i][cache.emailIndex]]
    IN IF needFetch /\ ~loadOk
       THEN FailedLoad(cData, cId)
       ELSE [result |-> Dedupe(foundEmails \o directEmails),
             data |-> cache,
             id |-> IF needFetch THEN sheetId ELSE cId,
             opened |-> needFetch]

\* ------------------------------------------------------- TemplateService
\* fetchTemplate(tabName, documentId): null without a document id, an
\* exception of DocumentApp.openById for an id that names no document,
\* null for a missing tab, else the parsed template.
fetchTemplate(tabName, documentId) ==
  IF documentId = "" THEN [kind |-> "null", opened |-> FALSE]
  ELSE IF documentId \notin DocIds THEN [kind |-> "throw", opened |-> TRUE]
  ELSE IF tabName \notin DOMAIN TemplateDoc THEN [kind |-> "null", opened |-> TRUE]
  ELSE [kind |-> "ok", opened |-> TRUE]

\* parseRecipientKeys on the comma-joined raw keys: the non-empty items
parseRecipientKeys(raw) == SelectSeq(raw, LAMBDA item : item # "")

\* ----------------------------------------------------------------- Gmail
\* draftSubject && draftSubject.indexOf(template.subject) !== -1
DraftSubjectMatches(draftSubject, subject) ==
  draftSubject # <<>> /\ Contains(draftSubject, subject)

\* the first draft of GmailApp.getDrafts() that matches, 0 when none does
FirstMatchingDraft(ds, subject) ==
  IF \E i \in 1..Len(ds) : DraftSubjectMatches(ds[i].subject, subject)
  THEN CHOOSE i \in 1..Len(ds) :
         /\ DraftSubjectMatches(ds[i].subject, subject)
         /\ \A j \in 1..(i - 1) : ~DraftSubjectMatches(ds[j].subject, subject)
  ELSE 0

\* GmailApp.search('subject:"<subject>"', 0, max): the positions of the
\* threads whose subject holds the quoted phrase, at most max of them
GmailSearch(ths, subject, max) ==
  LET hits == SelectSeq([i \in 1..Len(ths) |-> i],
                        LAMBDA i : Contains(ths[i].subject, subject))
  IN SubSeq(hits, 1, IF Len(hits) < max THEN Len(hits) ELSE max)

\* originalSubject.match(/^(Automatic reply|OOO|Out of Office|Absence Notice):/i)
IsAutoReply(originalSubject) ==
  /\ Len(originalSubject) > 0
  /\ Lower(originalSubject[1]) \in
       {"automatic reply:", "ooo:", "out of office:", "absence notice:"}

\* the first thread of the search result that is not an auto-reply, 0 if none
TargetThread(ths, found) ==
  LET ok == SelectSeq(found, LAMBDA i : ~IsAutoReply(ths[i].subject))
  IN IF Len(ok) = 0 THEN 0 ELSE ok[1]

\* thread.createDraftReplyAll(body, {htmlBody, cc}): a reply addressed to the
\* thread's participants, under the thread's subject
ReplyDraft(ths, t, cc, body) ==
  [subject |-> IF Len(ths[t].subject) > 0 /\ Lower(ths[t].subject[1]) = "re:"
               THEN ths[t].subject ELSE <<"Re:">> \o ths[t].subject,
   to |-> ths[t].participants, cc |-> cc, body |-> body, thread |-> t]

\* GmailApp.createDraft(to, subject, body, {cc, htmlBody})
NewDraft(to, subject, cc, body) ==
  [subject |-> subject, to |-> to, cc |-> cc, body |-> body, thread |-> 0]

\* ------------------------------------------------------ MailOrchestrator
\* one mailbox call that raises during the run ("none": every call succeeds)
Faults == {"none", "GmailApp.getDrafts", "draft.update", "GmailApp.search",
           "thread.createDraftReplyAll", "GmailApp.createDraft"}

MutationCalls == {"draft.update", "thread.createDraftReplyAll", "GmailApp.createDraft"}
MailboxCalls == MutationCalls \cup {"GmailApp.getDrafts", "GmailApp.search"}

NoSimulation == [present |-> FALSE, actions |-> <<>>]

\* number of live drafts whose subject contains the subject
LiveDrafts(ds, subject) == Cardinality({i \in 1..Len(ds) : Contains(ds[i].subject, subject)})

\* what a run leaves behind for the caller and the observer: the returned
\* object (or the exception), the external calls in order, the records handed
\* to logExecution and the Log.warn / Log.error lines
NoRun ==
  [op |-> "none", templateTabName |-> "", dryRun |-> FALSE, testMode |-> FALSE,
   config |-> DEFAULTS, found |-> FALSE, subject |-> <<>>,
   resolvedTo |-> <<>>, recipientsTo |-> <<>>, recipientsCc |-> <<>>,
   calls |-> <<>>, outcome |-> "none", success |-> FALSE, draftId |-> NullId,
   simulation |-> NoSimulation, logged |-> <<>>, logLines |-> <<>>,
   raised |-> "none", matched |-> 0, liveBefore |-> 0, liveAfter |-> 0,
   changed |-> FALSE]

\* generateUserSignature(config): sender profile sheet and logo (both inside
\* try/catch), then fetchTemplate of the signature tab
SignatureCalls(config) ==
  <<"SpreadsheetApp.openById">>
  \o (IF config.logoFileId # "" THEN <<"DriveApp.getFileById">> ELSE <<>>)
  \o (IF config.templateDocumentId # "" THEN <<"DocumentApp.openById">> ELSE <<>>)

\* steps 4-6: draft recycling, thread search, reply or new draft (lines 148-242)
DeliverBranch(base, subject, body, fault) ==
  LET enumFails == fault = "GmailApp.getDrafts"
      m == IF enumFails THEN 0 ELSE FirstMatchingDraft(drafts, subject)
      updateFails == m # 0 /\ fault = "draft.update"
      recycleWarn == IF enumFails \/ updateFails THEN <<"warn: Draft Recycle Warning">> ELSE <<>>
      callsA == base.calls \o <<"GmailApp.getDrafts">>
                  \o (IF m # 0 THEN <<"draft.update">> ELSE <<>>)
      found == GmailSearch(threads, subject, SEARCH_LIMIT)
      targetThread == TargetThread(threads, found)
      replyWarn == IF targetThread # 0 /\ base.recipientsTo # <<>>
                   THEN <<"warn: Reply-all mode active">> ELSE <<>>
      createCall == IF targetThread # 0 THEN "thread.createDraftReplyAll" ELSE "GmailApp.createDraft"
      created == IF targetThread # 0
                 THEN ReplyDraft(threads, targetThread, base.recipientsCc, body)
                 ELSE NewDraft(base.recipientsTo, subject, base.recipientsCc, body)
  IN IF m # 0 /\ ~updateFails
     THEN [drafts |-> [drafts EXCEPT ![m] = [@ EXCEPT !.to = base.recipientsTo,
                                                      !.subject = subject,
                                                      !.cc = base.recipientsCc,
                                                      !.body = body]],
           obs |-> [base EXCEPT !.calls = callsA, !.matched = m,
                      !.outcome = "returned", !.success = TRUE, !.draftId = m,
                      !.logged = <<"UPDATED">>]]
     ELSE IF fault = "GmailApp.search"
     THEN [drafts |-> drafts,
           obs |-> [base EXCEPT !.calls = callsA \o <<"GmailApp.search">>, !.matched = m,
                      !.outcome = "thrown", !.raised = fault,
                      !.logLines = recycleWarn]]
     ELSE IF fault = createCall
     THEN [drafts |-> drafts,
           obs |-> [base EXCEPT !.calls = callsA \o <<"GmailApp.search", createCall>>,
                      !.matched = m,
                      !.outcome = "thrown", !.raised = fault,
                      !.logged = <<"ERROR">>,
                      !.logLines = recycleWarn \o replyWarn \o <<"error: Failed to create draft">>]]
     ELSE [drafts |-> Append(drafts, created),
           obs |-> [base EXCEPT !.calls = callsA \o <<"GmailApp.search", createCall>>,
                      !.matched = m,
                      !.outcome = "returned", !.success = TRUE, !.draftId = Len(drafts) + 1,
                      !.raised = IF enumFails \/ updateFails THEN fault ELSE "none",
                      !.logged = <<"CREATED">>,
                      !.logLines = recycleWarn \o replyWarn]]

\* a dry run that ignores the flag and delivers
DryRunBranchDelivers(base, subject, fault) ==
  DeliverBranch(base, subject, base.templateTabName, fault)

\* the dry-run branch (lines 96-143)
DryRunBranch(base, subject, fault) ==
  LET enumFails == fault = "GmailApp.getDrafts"
      m == IF enumFails THEN 0 ELSE FirstMatchingDraft(drafts, subject)
      searchFails == ~enumFails /\ m = 0 /\ fault = "GmailApp.search"
      found == GmailSearch(threads, subject, SEARCH_LIMIT)
      calls == base.calls \o <<"GmailApp.getDrafts">>
                 \o (IF enumFails \/ m # 0 THEN <<>> ELSE <<"GmailApp.search">>)
      actions == IF enumFails \/ searchFails THEN <<"Error during simulation">>
                 ELSE IF m # 0 THEN <<"Would UPDATE existing draft">>
                 ELSE IF Len(found) > 0 THEN <<"Would CREATE reply draft on thread">>
                 ELSE <<"Would CREATE new draft">>
  IN [drafts |-> drafts,
      obs |-> [base EXCEPT !.calls = calls,
                 !.outcome = "returned", !.success = TRUE, !.draftId = NullId,
                 !.simulation = [present |-> TRUE, actions |-> actions],
                 !.matched = m,
                 !.raised = IF enumFails \/ searchFails THEN fault ELSE "none",
                 !.logLines = IF enumFails \/ searchFails THEN <<"error: DRY RUN Error">> ELSE <<>>,
                 !.logged = IF ~enumFails /\ m # 0 THEN <<>> ELSE <<"DRY_RUN">>]]

generateEmailDraft(templateTabName, userOverrides, fault) ==
  LET dryRun == "dryRun" \in DOMAIN userOverrides /\ userOverrides.dryRun = TRUE
      testMode == "testMode" \in DOMAIN userOverrides /\ userOverrides.testMode = TRUE
      cleanOverrides == [k \in (DOMAIN userOverrides) \ {"dryRun", "testMode"} |-> userOverrides[k]]
      config == AppConfig(cleanOverrides)
      fetched == fetchTemplate(templateTabName, config.templateDocumentId)
      start == [NoRun EXCEPT !.op = "generateEmailDraft",
                  !.templateTabName = templateTabName,
                  !.dryRun = dryRun, !.testMode = testMode, !.config = config,
                  !.calls = IF fetched.opened THEN <<"DocumentApp.openById">> ELSE <<>>]
      same == [data |-> distroCacheData, id |-> distroCacheId]
  IN IF fetched.kind = "throw"
     THEN [drafts |-> drafts, cache |-> same,
           obs |-> [start EXCEPT !.outcome = "thrown", !.raised = "DocumentApp.openById"]]
     ELSE IF fetched.kind = "null"
     THEN [drafts |-> drafts, cache |-> same,
           obs |-> [start EXCEPT !.outcome = "returned", !.success = FALSE,
                      !.logged = <<"ERROR">>,
                      !.logLines = <<"error: Runner Stopped">>]]
     ELSE
       LET template == TemplateDoc[templateTabName]
           toKeys == parseRecipientKeys(template.to)
           ccKeys == parseRecipientKeys(template.cc)
           rTo == resolveRecipients(config, toKeys, distroCacheData, distroCacheId, directory)
           rCc == resolveRecipients(config, ccKeys, rTo.data, rTo.id, directory)
           recipientsTo == IF testMode THEN <<OPERATOR_EMAIL>> ELSE rTo.result
           recipientsCc == IF testMode THEN <<>> ELSE rCc.result
           calls == start.calls \o <<"SpreadsheetApp.openById">>
                      \o (IF rTo.opened THEN <<"SpreadsheetApp.openById">> ELSE <<>>)
                      \o (IF rCc.opened THEN <<"SpreadsheetApp.openById">> ELSE <<>>)
                      \o SignatureCalls(config)
           base == [start EXCEPT !.found = TRUE, !.subject = template.subject,
                      !.resolvedTo = rTo.result,
                      !.recipientsTo = recipientsTo, !.recipientsCc = recipientsCc,
                      !.calls = calls,
                      !.logLines = <<>>]
           r == IF dryRun THEN DryRunBranch(base, template.subject, fault)
                ELSE DeliverBranch(base, template.subject, templateTabName, fault)
       IN [drafts |-> r.drafts, cache |-> [data |-> rCc.data, id |-> rCc.id],
           obs |-> [r.obs EXCEPT !.liveBefore = LiveDrafts(drafts, template.subject),
                                 !.liveAfter = LiveDrafts(r.drafts, template.subject),
                                 !.changed = (r.drafts # drafts)]]

\* ------------------------------------------------------------------ state
ThreadChoices ==
  LET ops == [subject |-> <<"Ops">>, participants |-> <<"bob@x">>]
      ooo == [subject |-> <<"OOO:", "Ops">>, participants |-> <<"bob@x">>]
  IN { <<>>, <<ops>>, <<ooo>>, <<ooo, ops>> }

DraftChoices ==
  { <<>>,
    << [subject |-> <<"Ops", "v2">>, to |-> <<"a@x">>, cc |-> <<>>, body |-> "manual", thread |-> 0] >> }

\* no helper function has been called on its own yet
NoCall == [fn |-> "none"]

\* the script properties hold no entry
NoProperties == [k \in {} |-> ""]

NoBatch ==
  [pc |-> "idle", templateNames |-> <<>>, config |-> DEFAULTS, i |-> 0,
   startTime |-> 0, successful |-> 0, failed |-> 0, skipped |-> 0,
   errors |-> <<>>, lastStartedAt |-> 0, skipAt |-> 0, logged |-> <<>>]

Init ==
  /\ drafts \in DraftChoices
  /\ threads \in ThreadChoices
  /\ directory \in DirectoryChoices
  /\ distroCacheData = NoData
  /\ distroCacheId = ""
  /\ last = NoRun
  /\ batch = NoBatch
  /\ now = 0
  /\ call = NoCall
  /\ properties = NoProperties
  /\ triggers = {}

\* one call of generateEmailDraft(templateTabName, userOverrides)
GenerateEmailDraft ==
  /\ batch.pc = "idle"
  /\ last = NoRun
  /\ Len(drafts) < MaxDrafts
  /\ \E templateTabName \in TabNames, overrides \in OverrideChoices,
        dryRun \in BOOLEAN, testMode \in BOOLEAN, fault \in Faults :
       \E r \in {generateEmailDraft(templateTabName,
                     [dryRun |-> dryRun, testMode |-> testMode] @@ overrides, fault)} :
          /\ drafts' = r.drafts
          /\ distroCacheData' = r.cache.data
          /\ distroCacheId' = r.cache.id
          /\ last' = r.obs
  /\ UNCHANGED <<threads, directory, batch, now, call,
               properties, triggers>>

\* the caller takes the returned object (or catches the exception) and goes on
CallerContinues ==
  /\ last # NoRun
  /\ last' = NoRun
  /\ UNCHANGED <<drafts, threads, directory, distroCacheData, distroCacheId, batch, now, call,
               properties, triggers>>

\* a new script execution re-evaluates the module-level cache declarations
NewExecution ==
  /\ batch.pc = "idle"
  /\ last = NoRun
  /\ distroCacheData # NoData
  /\ distroCacheData' = NoData
  /\ distroCacheId' = ""
  /\ call' = NoCall
  /\ UNCHANGED <<drafts, threads, directory, last, batch, now,
               properties, triggers>>

Next == GenerateEmailDraft \/ CallerContinues \/ NewExecution

Spec == Init /\ [][Next]_vars

\* ------------------------------------------- the directory sheet is edited
\* the directory after a maintainer's edit of dirA: a@x leaves RoleA, d@x joins
EditedDirectory(dir) ==
  [dir EXCEPT !.dirA.Recipients_Master =
     << <<"Email", "Role", "Team">>,
        <<"a@x", "RoleB", "T1">>,
        <<"b@x", "RoleB", "RoleA">>,
        <<"d@x", "RoleA", "T2">> >>]

\* between two invocations somebody edits the recipients tab
DirectoryEdited ==
  /\ batch.pc = "idle"
  /\ last = NoRun
  /\ directory \in DirectoryChoices
  /\ directory' = EditedDirectory(directory)
  /\ UNCHANGED <<drafts, threads, distroCacheData, distroCacheId, last, batch, now, call,
               properties, triggers>>

NextEdited == GenerateEmailDraft \/ CallerContinues \/ NewExecution \/ DirectoryEdited

SpecEdited == Init /\ [][NextEdited]_vars

\* ------------------------------------------------------ generateBatchDrafts
\* template names a batch may list, and the overrides shared by its items
BatchNames == {"Ops", "Missing"}
BatchOverrideChoices ==
  {Deployed, NoOverrides, [dryRun |-> TRUE] @@ Deployed, [testMode |-> TRUE] @@ Deployed}
BatchFaults == {"none", "GmailApp.search", "thread.createDraftReplyAll", "GmailApp.createDraft"}

\* wall-clock cost of one step (ms): a quick one and a slow one
Durations == {1000, 200000}

RECURSIVE SeqsUpTo(_, _)
SeqsUpTo(S, n) ==
  IF n = 0 THEN {<<>>}
  ELSE LET shorter == SeqsUpTo(S, n - 1)
       IN shorter \cup {Append(q, x) : q \in {t \in shorter : Len(t) = n - 1}, x \in S}

\* the body of the try block for one template (lines 333-392): the drafts and
\* the cache after it, and whether it completed or raised into the catch
BatchProcess(templateName, config, fault) ==
  LET fetched == fetchTemplate(templateName, config.templateDocumentId)
      same == [data |-> distroCacheData, id |-> distroCacheId]
  IN IF fetched.kind # "ok"
     THEN [ok |-> FALSE, drafts |-> drafts, cache |-> same, draftId |-> NullId]
     ELSE
       LET template == TemplateDoc[templateName]
           toKeys == parseRecipientKeys(template.to)
           ccKeys == parseRecipientKeys(template.cc)
           rTo == resolveRecipients(config, toKeys, distroCacheData, distroCacheId, directory)
           rCc == resolveRecipients(config, ccKeys, rTo.data, rTo.id, directory)
           cache == [data |-> rCc.data, id |-> rCc.id]
           found == GmailSearch(threads, template.subject, 1)
           createCall == IF Len(found) > 0 THEN "thread.createDraftReplyAll" ELSE "GmailApp.createDraft"
           created == IF Len(found) > 0
                      THEN ReplyDraft(threads, found[1], rCc.result, templateName)
                      ELSE NewDraft(rTo.result, template.subject, rCc.result, templateName)
       IN IF fault = "GmailApp.search" \/ fault = createCall
          THEN [ok |-> FALSE, drafts |-> drafts, cache |-> cache, draftId |-> NullId]
          ELSE [ok |-> TRUE, drafts |-> Append(drafts, created), cache |-> cache,
                draftId |-> Len(drafts) + 1]

\* the time check of line 325, with >= 2 minutes of slack wrongly added
TimeLimitReachedLate(elapsedTime) == elapsedTime > MAX_EXECUTION_TIME + 120000

\* elapsedTime > MAX_EXECUTION_TIME
TimeLimitReached(elapsedTime) == elapsedTime > MAX_EXECUTION_TIME

\* a loop that an item's exception leaves
LoopAfterItemAborting(ok, i, n) == IF ok /\ i + 1 < n THEN "loop" ELSE "exit"

\* the for loop after one item: the catch block falls through to i++
LoopAfterItem(ok, i, n) == IF i + 1 < n THEN "loop" ELSE "exit"

\* generateBatchDrafts up to the loop: config, start time, link repository
BatchStart ==
  /\ batch.pc = "idle"
  /\ last = NoRun
  /\ Len(drafts) < MaxDrafts
  /\ \E templateNames \in SeqsUpTo(BatchNames, MaxBatch),
        sharedOverrides \in BatchOverrideChoices, d \in Durations :
       /\ batch' = [NoBatch EXCEPT !.pc = IF Len(templateNames) > 0 THEN "loop" ELSE "exit",
                                   !.templateNames = templateNames,
                                   !.config = AppConfig(sharedOverrides),
                                   !.startTime = now]
       /\ now' = now + d
  /\ UNCHANGED <<drafts, threads, directory, distroCacheData, distroCacheId, last, call,
               properties, triggers>>

\* one iteration of the loop: the time check, then the item inside try/catch
BatchItem ==
  /\ batch.pc = "loop"
  /\ LET i == batch.i
         n == Len(batch.templateNames)
         templateName == batch.templateNames[i + 1]
         elapsedTime == now - batch.startTime
     IN IF TimeLimitReached(elapsedTime)
        THEN /\ batch' = [batch EXCEPT !.skipped = n - i, !.skipAt = elapsedTime, !.pc = "exit"]
             /\ UNCHANGED <<drafts, distroCacheData, distroCacheId, now>>
        ELSE \E fault \in BatchFaults, d \in Durations :
             \E r \in {BatchProcess(templateName, batch.config, fault)} :
                /\ drafts' = r.drafts
                /\ distroCacheData' = r.cache.data
                /\ distroCacheId' = r.cache.id
                /\ batch' = [batch EXCEPT
                      !.i = i + 1,
                      !.successful = IF r.ok THEN @ + 1 ELSE @,
                      !.failed = IF r.ok THEN @ ELSE @ + 1,
                      !.errors = IF r.ok THEN @ ELSE Append(@, templateName),
                      !.lastStartedAt = elapsedTime,
                      !.logged = Append(@, IF r.ok THEN "BATCH_CREATED" ELSE "BATCH_ERROR"),
                      !.pc = LoopAfterItem(r.ok, i, n)]
                /\ now' = now + d + (IF r.ok /\ i < n - 1 THEN RATE_LIMIT_DELAY ELSE 0)
  /\ UNCHANGED <<threads, directory, last, call,
               properties, triggers>>

\* after the loop: the summary record and the returned object
BatchFinish ==
  /\ batch.pc = "exit"
  /\ batch' = [batch EXCEPT !.pc = "done", !.logged = Append(@, "BATCH_COMPLETE")]
  /\ UNCHANGED <<drafts, threads, directory, distroCacheData, distroCacheId, last, now, call,
               properties, triggers>>

\* the entry point that ran the batch returns and the script execution ends;
\* the next execution starts with a fresh clock and fresh module-level state
BatchExecutionEnds ==
  /\ batch.pc = "done"
  /\ batch' = NoBatch
  /\ now' = 0
  /\ distroCacheData' = NoData
  /\ distroCacheId' = ""
  /\ UNCHANGED <<drafts, threads, directory, last, call,
               properties, triggers>>

NextBatch == BatchStart \/ BatchItem \/ BatchFinish \/ BatchExecutionEnds

SpecBatch == Init /\ [][NextBatch]_vars

\* ------------------------------------------- helper functions on their own
\* the helpers are exercised from an execution with an empty mailbox
InitHelpers == Init /\ drafts = <<>> /\ threads = <<>>

\* the helper returns and its caller goes on
HelperReturns ==
  /\ call # NoCall
  /\ call' = NoCall
  /\ UNCHANGED <<drafts, threads, directory, distroCacheData, distroCacheId, last, batch, now,
               properties, triggers>>

\* ------------------------------------------------------ resolveRecipients
\* configurations whose directory settings differ: three spreadsheets, a
\* second tab of the first one, and the placeholder id of DEFAULTS
RecipientConfigChoices ==
  { AppConfig([directorySheetId |-> "dirA"]),
    AppConfig([directorySheetId |-> "dirA", recipientsTabName |-> "Archive"]),
    AppConfig([directorySheetId |-> "dirB"]),
    AppConfig([directorySheetId |-> "dirC"]),
    AppConfig(NoOverrides) }

\* role keys and literal addresses a caller passes
RecipientArgs == {"RoleA", "RoleB", "a@x", "boss@x"}

\* one call resolveRecipients(config, ...args) against the module-level cache
ResolveRecipients ==
  /\ call = NoCall
  /\ \E config \in RecipientConfigChoices, args \in SeqsUpTo(RecipientArgs, MaxArgs) :
       \E r \in {resolveRecipients(config, args, distroCacheData, distroCacheId, directory)} :
          /\ distroCacheData' = r.data
          /\ distroCacheId' = r.id
          /\ call' = [fn |-> "resolveRecipients", config |-> config, args |-> args,
                      result |-> r.result, opened |-> r.opened,
                      before |-> [data |-> distroCacheData, id |-> distroCacheId]]
  /\ UNCHANGED <<drafts, threads, directory, last, batch, now,
               properties, triggers>>

NextRecipients == ResolveRecipients \/ HelperReturns \/ NewExecution

SpecRecipients == InitHelpers /\ [][NextRecipients]_vars

\* -------------------------------------------------------- applyDictionary_
\* A text is a sequence of tokens: the brace pairs, a blank, a markup tag and
\* words.  String.toUpperCase on the words of the model:
Upper(w) == IF w = "date" THEN "DATE" ELSE w

\* inner.replace(/<[^>]+>/g, "")
StripTags(inner) == SelectSeq(inner, LAMBDA t : t # "<b>")

\* .replace(/\s+/g, " "): a run of blanks becomes one blank
CollapseSpaces(inner) ==
  LET F[i \in 0..Len(inner)] ==
        IF i = 0 THEN <<>>
        ELSE IF inner[i] = " " /\ Len(F[i - 1]) > 0 /\ F[i - 1][Len(F[i - 1])] = " "
             THEN F[i - 1] ELSE Append(F[i - 1], inner[i])
  IN F[Len(inner)]

\* String.trim
Trim(inner) ==
  LET keep == {i \in 1..Len(inner) : inner[i] # " "}
  IN IF keep = {} THEN <<>>
     ELSE SubSeq(inner, CHOOSE i \in keep : \A j \in keep : i <= j,
                        CHOOSE i \in keep : \A j \in keep : i >= j)

\* the healing callback of lines 135-142
CleanInner(inner) == Trim(CollapseSpaces(StripTags(inner)))

\* content.split(":").map(p => p.trim())
RECURSIVE SplitColon(_)
SplitColon(content) ==
  IF \E i \in 1..Len(content) : content[i] = ":"
  THEN LET i == CHOOSE k \in 1..Len(content) :
                  content[k] = ":" /\ \A j \in 1..(k - 1) : content[j] # ":"
       IN <<Trim(SubSeq(content, 1, i - 1))>> \o SplitColon(SubSeq(content, i + 1, Len(content)))
  ELSE <<Trim(content)>>

\* the cases of the switch of lines 153-194
CommandTable == {"DATE", "RANGE", "TIME", "MONTHNAME", "RAMCO", "DATE_FORMAT",
                 "GREETING", "ACTIVE_SPREADSHEET_LINK", "THIS_SHEET"}

\* parts[0].toUpperCase() of a tag content, "" when it is not a single word
\* (a command of several tokens is in no case of the switch)
CommandOf(content) ==
  LET parts == SplitColon(content)
  IN IF Len(parts[1]) = 1 THEN Upper(parts[1][1]) ELSE ""

\* Utilities.formatDate raises on a pattern with a letter that is no pattern
\* letter; "Q" is the one such pattern of the model
FormatFails(content) ==
  Len(SplitColon(content)) >= 3 /\ SplitColon(content)[3] = <<"Q">>

\* a catch block that hands the tag back as it was written
OnDictionaryErrorKeepsTag(content) == <<"{{">> \o content \o <<"}}">>

\* the catch block of lines 196-199
OnDictionaryError(content) == <<"ERROR">>

\* the dispatch callback of lines 144-201 on a tag content; the words of the
\* model name no weekday or offset, so a DATE tag renders today's date
Dispatch(content) ==
  LET command == CommandOf(content)
  IN CASE command = "DATE" -> <<"15-Feb-2026">>
       [] command = "RANGE" -> <<"15-Feb-2026", " ", "-", " ", "15-Feb-2026">>
       [] command = "TIME" -> <<"9:00 AM MYT">>
       [] command = "MONTHNAME" -> <<"February 2026">>
       [] command = "RAMCO" -> <<"16-Jan-2026", " ", "-", " ", "15-Feb-2026">>
       [] command = "DATE_FORMAT" -> IF FormatFails(content) THEN OnDictionaryError(content)
                                     ELSE <<"15-Feb-2026">>
       [] command = "GREETING" -> <<"Good Morning">>
       [] command \in {"ACTIVE_SPREADSHEET_LINK", "THIS_SHEET"} -> <<"#">>
       [] OTHER -> <<"{{">> \o content \o <<"}}">>

\* text.replace(/\{\{(.*?)\}\}/g, callback) from position i on: the leftmost
\* "{{" that has a "}}" after it opens a span that ends at the nearest "}}"
RECURSIVE ReplaceSpans(_, _, _)
ReplaceSpans(text, i, pass) ==
  IF i > Len(text) THEN <<>>
  ELSE IF text[i] = "{{" /\ \E j \in (i + 1)..Len(text) : text[j] = "}}"
  THEN LET j == CHOOSE k \in (i + 1)..Len(text) :
                  text[k] = "}}" /\ \A m \in (i + 1)..(k - 1) : text[m] # "}}"
           inner == SubSeq(text, i + 1, j - 1)
           out == CASE pass = "heal" -> <<"{{">> \o CleanInner(inner) \o <<"}}">>
                    [] pass = "dispatch" -> Dispatch(inner)
                    [] OTHER -> IF CommandOf(CleanInner(inner)) \in CommandTable
                                THEN Dispatch(CleanInner(inner))
                                ELSE SubSeq(text, i, j)
       IN out \o ReplaceSpans(text, j + 1, pass)
  ELSE <<text[i]>> \o ReplaceSpans(text, i + 1, pass)

applyDictionary_(text) ==
  IF text = <<>> THEN <<>>
  ELSE LET healedText == ReplaceSpans(text, 1, "heal")
       IN ReplaceSpans(healedText, 1, "dispatch")

\* what a template author (or the rich-text editor) puts inside the braces
InnerTokens == {" ", "<b>", "DATE", "date", "FOO", ":"}

\* what follows the first tag in the text
TextTails == { <<>>, <<" ", "Hi">>, <<"{{", "DATE", "}}">>, <<"{{", " ", "FOO", "}}">> }

ApplyDictionary ==
  /\ call = NoCall
  /\ \E inner \in SeqsUpTo(InnerTokens, MaxInner), tail \in TextTails :
       LET text == <<"{{">> \o inner \o <<"}}">> \o tail
       IN call' = [fn |-> "applyDictionary_", text |-> text, result |-> applyDictionary_(text)]
  /\ UNCHANGED <<drafts, threads, directory, distroCacheData, distroCacheId, last, batch, now,
               properties, triggers>>

\* an untagged or empty text
ApplyDictionaryPlain ==
  /\ call = NoCall
  /\ \E text \in {<<>>, <<"Hi">>, <<"{{", "Hi">>} :
       call' = [fn |-> "applyDictionary_", text |-> text, result |-> applyDictionary_(text)]
  /\ UNCHANGED <<drafts, threads, directory, distroCacheData, distroCacheId, last, batch, now,
               properties, triggers>>

\* the pieces a text with several tags is made of, and their tokens
DictPieces == {"Hi", "{{DATE}}", "{{GREETING}}", "{{DATE_FORMAT::Q}}", "{{FOO}}"}

DictTokens(piece) ==
  CASE piece = "{{DATE}}" -> <<"{{", "DATE", "}}">>
    [] piece = "{{GREETING}}" -> <<"{{", "GREETING", "}}">>
    [] piece = "{{DATE_FORMAT::Q}}" -> <<"{{", "DATE_FORMAT", ":", ":", "Q", "}}">>
    [] piece = "{{FOO}}" -> <<"{{", "FOO", "}}">>
    [] OTHER -> <<piece>>

\* a text with several tags, some of which fail
ApplyDictionaryPieces ==
  /\ call = NoCall
  /\ \E pieces \in SeqsUpTo(DictPieces, MaxBody) :
       LET text == Flatten([i \in 1..Len(pieces) |-> DictTokens(pieces[i])])
       IN call' = [fn |-> "applyDictionary_", text |-> text, result |-> applyDictionary_(text),
                   pieces |-> pieces]
  /\ UNCHANGED <<drafts, threads, directory, distroCacheData, distroCacheId, last, batch, now,
               properties, triggers>>

NextDictionary ==
  ApplyDictionary \/ ApplyDictionaryPlain \/ ApplyDictionaryPieces \/ HelperReturns

SpecDictionary == InitHelpers /\ [][NextDictionary]_vars

\* -------------------------------------------------------- parseDateToken_
\* A Date is the number of its day, counted from 1-Jan-EPOCH_YEAR = 0, in the
\* script time zone.
IsLeap(y) == y % 4 = 0 /\ (y % 100 # 0 \/ y % 400 = 0)
DaysInYear(y) == IF IsLeap(y) THEN 366 ELSE 365
DaysInMonth(y, m) ==
  IF m = 1 THEN (IF IsLeap(y) THEN 29 ELSE 28)
  ELSE IF m \in {3, 5, 8, 10} THEN 30 ELSE 31

RECURSIVE YearStart(_)
YearStart(y) ==
  IF y = EPOCH_YEAR THEN 0
  ELSE IF y > EPOCH_YEAR THEN YearStart(y - 1) + DaysInYear(y - 1)
  ELSE YearStart(y + 1) - DaysInYear(y)

RECURSIVE MonthStart(_, _)
MonthStart(y, m) == IF m = 0 THEN YearStart(y) ELSE MonthStart(y, m - 1) + DaysInMonth(y, m - 1)

\* new Date(y, m, d) for any integers m and d: months and days roll over
MakeDate(y, m, d) == MonthStart(y + (m \div 12), m % 12) + d - 1

RECURSIVE getFullYearFrom(_, _)
getFullYearFrom(n, y) ==
  IF n < YearStart(y) THEN getFullYearFrom(n, y - 1)
  ELSE IF n >= YearStart(y + 1) THEN getFullYearFrom(n, y + 1)
  ELSE y

getFullYear(n) == getFullYearFrom(n, EPOCH_YEAR)
getMonth(n) == CHOOSE m \in 0..11 :
                 /\ MonthStart(getFullYear(n), m) <= n
                 /\ n < MonthStart(getFullYear(n), m) + DaysInMonth(getFullYear(n), m)
getDate(n) == n - MonthStart(getFullYear(n), getMonth(n)) + 1
getDay(n) == (n + EPOCH_WEEKDAY) % 7

setDate(n, d) == MakeDate(getFullYear(n), getMonth(n), d)
setMonth(n, m) == MakeDate(getFullYear(n), m, getDate(n))
setFullYear(n, y) == MakeDate(y, getMonth(n), getDate(n))

\* const days = [...], 0-based as in the source
days == <<"sunday", "monday", "tuesday", "wednesday", "thursday", "friday", "saturday">>

\* A token is the sequence of the words of token.toLowerCase() with the
\* whitespace removed; text.includes(w) finds a word, also inside a longer one
Includes(text, w) ==
  \E i \in 1..Len(text) :
     \/ text[i] = w
     \/ (w = "month" /\ text[i] = "monthstart")
     \/ (w = "week" /\ text[i] = "weekstart")

\* parseInt of the first /[-+]\d+/ match, 0 without a match
MathShift(text) ==
  LET hit == {i \in 1..Len(text) : text[i] \in {"+3", "-1"}}
  IN IF hit = {} THEN 0
     ELSE LET first == CHOOSE i \in hit : \A j \in hit : i <= j
          IN IF text[first] = "+3" THEN 3 ELSE -1

parseDateToken_(text, today) ==
  LET hits == {i \in 1..7 : Includes(text, days[i])}
      dayIndex == IF hits # {} THEN (CHOOSE i \in hits : \A j \in hits : i <= j) - 1
                  ELSE IF Includes(text, "weekstart") THEN 0
                  ELSE -1
      mode == IF dayIndex # -1 THEN "dynamic"
              ELSE IF Includes(text, "yesterday") \/ Includes(text, "tomorrow") THEN "today"
              ELSE IF Includes(text, "monthstart") THEN "monthstart"
              ELSE IF Includes(text, "month") THEN "month"
              ELSE IF Includes(text, "year") THEN "year"
              ELSE "today"
      now0 == IF dayIndex # -1 THEN today
              ELSE IF Includes(text, "yesterday") THEN setDate(today, getDate(today) - 1)
              ELSE IF Includes(text, "tomorrow") THEN setDate(today, getDate(today) + 1)
              ELSE today
      nextCount == Len(SelectSeq(text, LAMBDA w : w = "next"))
      lastCount == Len(SelectSeq(text, LAMBDA w : w \in {"last", "previous"}))
      shift == nextCount - lastCount + MathShift(text)
  IN CASE mode = "year" -> setFullYear(now0, getFullYear(now0) + shift)
       [] mode = "month" -> setMonth(now0, getMonth(now0) + shift)
       [] mode = "monthstart" ->
            LET first == setDate(now0, 1) IN setMonth(first, getMonth(first) + shift)
       [] mode = "today" ->
            LET multiplier == IF Includes(text, "week") THEN 7 ELSE 1
            IN setDate(now0, getDate(now0) + shift * multiplier)
       [] OTHER ->
            LET currentDay == getDay(now0)
                sunday == setDate(now0, getDate(now0) + (0 - currentDay))
                weekday == setDate(sunday, getDate(sunday) + dayIndex)
            IN setDate(weekday, getDate(weekday) + shift * 7)

DateWords == Range(days) \cup
             {"next", "last", "previous", "today", "tomorrow", "yesterday", "week",
              "weekstart", "monthstart", "month", "year", "+3", "-1"}

\* the days on which the script runs: a full week from the README's today on
NowChoices == {README_TODAY + k : k \in 0..MaxNowOffset}

ParseDateToken ==
  /\ call = NoCall
  /\ \E text \in SeqsUpTo(DateWords, MaxWords), today \in NowChoices :
       call' = [fn |-> "parseDateToken_", text |-> text, today |-> today,
                result |-> parseDateToken_(text, today)]
  /\ UNCHANGED <<drafts, threads, directory, distroCacheData, distroCacheId, last, batch, now,
               properties, triggers>>

NextDates == ParseDateToken \/ HelperReturns

SpecDates == InitHelpers /\ [][NextDates]_vars

\* ------------------------------------------------- getHtmlTableFromSheet_
\* A fetched range: the display values (rows of cells), one formatting value
\* per cell (standing for the seven formatting arrays) and the merged regions
\* in range-local 0-based coordinates (merge.getRow() - startRowIndex, ...).
\* values[i].every(cell => cell.trim() === "")
IsRowEmpty(row) == \A j \in 1..Len(row) : row[j] \in {"", " "}

\* a trim that drops every empty row: the number of rows that hold data
CountNonEmptyRows(values) == Cardinality({i \in 1..Len(values) : ~IsRowEmpty(values[i])})

\* the bottom-up scan of lines 97-102: lastRowIndex + 1, 0 when every row is empty
LastNonEmptyRow(values) ==
  LET full == {i \in 1..Len(values) : ~IsRowEmpty(values[i])}
  IN IF full = {} THEN 0 ELSE CHOOSE i \in full : \A k \in full : k <= i

\* the metadata matrix after the first k merged regions (lines 147-176)
RECURSIVE CellMeta(_, _, _, _)
CellMeta(numRows, numCols, merges, k) ==
  IF k = 0
  THEN [i \in 1..numRows |-> [j \in 1..numCols |-> [rowSpan |-> 1, colSpan |-> 1, skip |-> FALSE]]]
  ELSE LET prev == CellMeta(numRows, numCols, merges, k - 1)
           merge == merges[k]
           covered(i, j) == /\ merge.row < i /\ i <= merge.row + merge.numRows
                            /\ merge.col < j /\ j <= merge.col + merge.numCols
           anchor(i, j) == i = merge.row + 1 /\ j = merge.col + 1
       IN [i \in 1..numRows |-> [j \in 1..numCols |->
             IF ~covered(i, j) THEN prev[i][j]
             ELSE IF anchor(i, j)
             THEN [prev[i][j] EXCEPT !.rowSpan = merge.numRows, !.colSpan = merge.numCols]
             ELSE [prev[i][j] EXCEPT !.skip = TRUE]]]

\* the rows of <td> elements of lines 187-233: one per position not skipped
EmitRows(values, backgrounds, cellMeta) ==
  [i \in 1..Len(values) |->
     LET shown == SelectSeq([j \in 1..Len(values[i]) |-> j], LAMBDA j : ~cellMeta[i][j].skip)
     IN [k \in 1..Len(shown) |->
           LET j == shown[k]
           IN [col |-> j, text |-> values[i][j],
               rowSpan |-> cellMeta[i][j].rowSpan, colSpan |-> cellMeta[i][j].colSpan,
               width |-> cellMeta[i][j].colSpan * DEFAULT_COL_WIDTH,
               style |-> backgrounds[i][j]]]]

getHtmlTableFromSheet_(range) ==
  LET newRowCount == LastNonEmptyRow(range.values)
      values == SubSeq(range.values, 1, newRowCount)
      backgrounds == SubSeq(range.backgrounds, 1, newRowCount)
      numCols == Len(values[1])
      cellMeta == CellMeta(newRowCount, numCols, range.merges, Len(range.merges))
  IN IF newRowCount = 0
     THEN [noData |-> TRUE, rows |-> <<>>, cellMeta |-> <<>>]
     ELSE [noData |-> FALSE, rows |-> EmitRows(values, backgrounds, cellMeta),
           cellMeta |-> cellMeta]

\* display values of a cell: empty, a blank, or data
CellTexts == {"", " ", "x"}
TableWidths == {1, 2}

\* no merged region, or one that lies inside the range and spans two cells or more
MergeChoices(n, c) ==
  {<<>>} \cup
  { <<[row |-> r, col |-> k, numRows |-> h, numCols |-> w]>> :
      <<r, k, h, w>> \in {q \in (0..(n - 1)) \X (0..(c - 1)) \X (1..n) \X (1..c) :
                           q[1] + q[3] <= n /\ q[2] + q[4] <= c /\ q[3] * q[4] >= 2} }

\* the ranges a sheet can hand back: in a merged region only the top-left
\* cell displays a value
TableRanges ==
  UNION { { [values |-> v, merges |-> ms,
             backgrounds |-> [i \in 1..n |-> [j \in 1..c |-> <<i, j>>]]] :
              <<v, ms>> \in {q \in [1..n -> [1..c -> CellTexts]] \X MergeChoices(n, c) :
                   \A m \in Range(q[2]) : \A i \in 1..n, j \in 1..c :
                      (/\ m.row < i /\ i <= m.row + m.numRows
                       /\ m.col < j /\ j <= m.col + m.numCols
                       /\ ~(i = m.row + 1 /\ j = m.col + 1)) => q[1][i][j] = ""} } :
          <<n, c>> \in (1..MaxRows) \X TableWidths }

GetHtmlTableFromSheet ==
  /\ call = NoCall
  /\ \E range \in TableRanges :
       call' = [fn |-> "getHtmlTableFromSheet_", range |-> range,
                out |-> getHtmlTableFromSheet_(range)]
  /\ UNCHANGED <<drafts, threads, directory, distroCacheData, distroCacheId, last, batch, now,
               properties, triggers>>

NextTable == GetHtmlTableFromSheet \/ HelperReturns

SpecTable == InitHelpers /\ [][NextTable]_vars

\* ------------------------------------------------------ fixMissingQuotes_
\* A range string is a sequence of pieces: a quote, a '!', or a run of other
\* characters.
\* rangeStr.indexOf("!"): the first '!', 0 when there is none
IndexOfBang(rangeStr) ==
  LET bangs == {i \in 1..Len(rangeStr) : rangeStr[i] = "!"}
  IN IF bangs = {} THEN 0 ELSE CHOOSE i \in bangs : \A k \in bangs : i <= k

\* rangeStr.lastIndexOf("!"): the last '!', 0 when there is none
LastIndexOfBang(rangeStr) ==
  LET bangs == {i \in 1..Len(rangeStr) : rangeStr[i] = "!"}
  IN IF bangs = {} THEN 0 ELSE CHOOSE i \in bangs : \A k \in bangs : k <= i

fixMissingQuotes_(rangeStr) ==
  LET lastBang == LastIndexOfBang(rangeStr)
      sheetName == SubSeq(rangeStr, 1, lastBang - 1)
      cellRange == SubSeq(rangeStr, lastBang + 1, Len(rangeStr))
  IN IF Len(rangeStr) > 0 /\ rangeStr[1] = "'" THEN rangeStr
     ELSE IF lastBang = 0 THEN rangeStr
     ELSE <<"'">> \o sheetName \o <<"'", "!">> \o cellRange

RangePieces == {"'", "!", "Data Sheet", "My Sheet", "A1:B2", "A1:B10"}

RangeStrings == UNION {[1..n -> RangePieces] : n \in 0..MaxRangeLen}

FixMissingQuotes ==
  /\ call = NoCall
  /\ \E rangeStr \in RangeStrings :
       call' = [fn |-> "fixMissingQuotes_", rangeStr |-> rangeStr,
                result |-> fixMissingQuotes_(rangeStr),
                again |-> fixMissingQuotes_(fixMissingQuotes_(rangeStr))]
  /\ UNCHANGED <<drafts, threads, directory, distroCacheData, distroCacheId, last, batch, now,
               properties, triggers>>

NextQuotes == FixMissingQuotes \/ HelperReturns

SpecQuotes == InitHelpers /\ [][NextQuotes]_vars

\* ----------------------------------------------------- injectManagedLinks
\* The body is a sequence of pieces; "$", "LINK:" and ",TEXT:" (a comma,
\* optional white space and TEXT:) are the pieces the tag pattern looks for.
\* The link map is a set of [key, url] entries with one entry per key, on
\* top of what a JavaScript object inherits.
\* the cleaning of keyPart and textPart in the healer (lines 98-107)
CleanLinkPart(part) ==
  Trim(CollapseSpaces([i \in 1..Len(StripTags(part)) |->
         IF StripTags(part)[i] = "&nbsp;" THEN " " ELSE StripTags(part)[i]]))

\* /\$LINK:(.*?),\s*TEXT:(.*?)\$/ matches at position i
TagAt(text, i) ==
  /\ text[i] = "$" /\ i + 1 <= Len(text) /\ text[i + 1] = "LINK:"
  /\ \E j \in (i + 2)..Len(text) :
        text[j] = ",TEXT:" /\ \E k \in (j + 1)..Len(text) : text[k] = "$"

\* the position of the first piece `piece` at or after position i
FirstAt(text, i, piece) ==
  CHOOSE j \in i..Len(text) : text[j] = piece /\ \A m \in i..(j - 1) : text[m] # piece

\* key.match(/^https?:\/\//i)
IsUrl(key) == Len(key) > 0 /\ key[1] \in {"https://u", "HTTP://u"}

\* property names every object literal inherits: linkMap is built as {}
InheritedKeys == {<<"constructor">>}

\* linkMap[key]: the stored entry, else the inherited property (a function,
\* which is truthy), else undefined, written as the empty sequence
Lookup(key, linkMap) ==
  IF \E e \in linkMap : e.key = key
  THEN (CHOOSE e \in linkMap : e.key = key).url
  ELSE IF key \in InheritedKeys THEN <<"function Object() { [native code] }">>
  ELSE <<>>

\* lines 119-125: the map entry, else the key itself when it is a URL
ResolveUrl(key, linkMap) ==
  IF Lookup(key, linkMap) = <<>> /\ IsUrl(key) THEN key ELSE Lookup(key, linkMap)

TextPiece(piece) == [kind |-> "text", href |-> <<>>, text |-> <<piece>>]

\* lines 127-134: an anchor when a URL was resolved, else the marker
RenderLink(key, label, linkMap) ==
  IF ResolveUrl(key, linkMap) # <<>>
  THEN [kind |-> "a", href |-> ResolveUrl(key, linkMap), text |-> label]
  ELSE [kind |-> "missing", href |-> <<>>, text |-> key]

\* the healing replace of lines 97-109
RECURSIVE HealLinks(_, _)
HealLinks(text, i) ==
  IF i > Len(text) THEN <<>>
  ELSE IF TagAt(text, i)
  THEN LET j == FirstAt(text, i + 2, ",TEXT:")
           k == FirstAt(text, j + 1, "$")
       IN <<"$", "LINK:">> \o CleanLinkPart(SubSeq(text, i + 2, j - 1)) \o <<",TEXT:">>
            \o CleanLinkPart(SubSeq(text, j + 1, k - 1)) \o <<"$">> \o HealLinks(text, k + 1)
  ELSE <<text[i]>> \o HealLinks(text, i + 1)

\* the injecting replace of lines 112-135
RECURSIVE InjectLinks(_, _, _)
InjectLinks(text, i, linkMap) ==
  IF i > Len(text) THEN <<>>
  ELSE IF TagAt(text, i)
  THEN LET j == FirstAt(text, i + 2, ",TEXT:")
           k == FirstAt(text, j + 1, "$")
       IN <<RenderLink(Trim(SubSeq(text, i + 2, j - 1)), Trim(SubSeq(text, j + 1, k - 1)), linkMap)>>
            \o InjectLinks(text, k + 1, linkMap)
  ELSE <<TextPiece(text[i])>> \o InjectLinks(text, i + 1, linkMap)

injectManagedLinks(bodyText, linkMap) ==
  IF bodyText = <<>> THEN <<>>
  ELSE InjectLinks(HealLinks(bodyText, 1), 1, linkMap)

\* link maps as loadLinkRepository builds them: no entry has an empty key or URL
LinkMapChoices ==
  { {},
    {[key |-> <<"K1">>, url |-> <<"https://cms/1">>]},
    {[key |-> <<"K1">>, url |-> <<"https://cms/1">>],
     [key |-> <<"https://u">>, url |-> <<"https://cms/2">>]} }

KeyPieces == {"<b>", " ", "&nbsp;", "K1", "K2", "https://u", "HTTP://u", "constructor"}
KeyParts == UNION {[1..n -> KeyPieces] : n \in 0..MaxKey}
LabelParts == {<<>>, <<"Click">>, <<"<b>", "Click">>, <<"Click", " ", "here">>}
BodyHeads == {<<>>, <<"Hi", " ">>, <<"$">>}
\* what follows the tag: nothing, text, a second tag, or a tag that never closes
SecondTag == <<"$", "LINK:", "K1", ",TEXT:", "Docs", "$">>
BodyTails == {<<>>, <<" ", "Bye">>, SecondTag, <<"$", "LINK:", "K2">>}

InjectManagedLinks ==
  /\ call = NoCall
  /\ \E head \in BodyHeads, keyPart \in KeyParts, textPart \in LabelParts,
        tail \in BodyTails, linkMap \in LinkMapChoices :
       LET bodyText == head \o <<"$", "LINK:">> \o keyPart \o <<",TEXT:">> \o textPart
                         \o <<"$">> \o tail
       IN call' = [fn |-> "injectManagedLinks", bodyText |-> bodyText, linkMap |-> linkMap,
                   tagged |-> TRUE, head |-> head, keyPart |-> keyPart, textPart |-> textPart, tail |-> tail,
                   result |-> injectManagedLinks(bodyText, linkMap)]
  /\ UNCHANGED <<drafts, threads, directory, distroCacheData, distroCacheId, last, batch, now,
               properties, triggers>>

\* a body without any tag, the empty body included
InjectManagedLinksPlain ==
  /\ call = NoCall
  /\ \E head \in BodyHeads, tail \in BodyTails \ {SecondTag}, linkMap \in LinkMapChoices :
       call' = [fn |-> "injectManagedLinks", bodyText |-> head \o tail, linkMap |-> linkMap,
                tagged |-> FALSE, head |-> head \o tail, keyPart |-> <<>>, textPart |-> <<>>, tail |-> <<>>,
                result |-> injectManagedLinks(head \o tail, linkMap)]
  /\ UNCHANGED <<drafts, threads, directory, distroCacheData, distroCacheId, last, batch, now,
               properties, triggers>>

NextLinks == InjectManagedLinks \/ InjectManagedLinksPlain \/ HelperReturns

SpecLinks == InitHelpers /\ [][NextLinks]_vars

\* ------------------------------------------------------------ processTables
\* A body is a sequence of pieces.  A piece that is a key of TableTags stands
\* for one `[Table] Sheet: <link>, range: <range>` paragraph; the record gives
\* what the pattern captures from it: the spreadsheet id found in the link
\* ("" when getIdFromUrl_ finds none) and the cleaned range string.
TableTags ==
  [tagA1 |-> [ssId |-> "sheet1", range |-> <<"Data", "!", "A1">>],
   tagB1 |-> [ssId |-> "sheet1", range |-> <<"Data", "!", "B1">>],
   tagC1 |-> [ssId |-> "sheet1", range |-> <<"Data", "!", "C1">>],
   tagE1 |-> [ssId |-> "sheet1", range |-> <<"'", "Data", "'", "!", "E1:E2">>],
   tagBadRange |-> [ssId |-> "sheet1", range |-> <<"Nope", "!", "A1">>],
   tagBadSheet |-> [ssId |-> "sheet9", range |-> <<"Data", "!", "A1">>],
   tagNoId |-> [ssId |-> "", range |-> <<"Data", "!", "A1">>]]

\* the spreadsheets that open, and the ranges of sheet1 by A1 notation
TableSheets == {"sheet1"}

OneCell(text) == [values |-> <<<<text>>>>, merges |-> <<>>, backgrounds |-> <<<<<<1, 1>>>>>>]

SheetRanges ==
  (<<"'", "Data", "'", "!", "A1">> :> OneCell("x"))
  @@ (<<"'", "Data", "'", "!", "B1">> :> OneCell("$LINK:K1, TEXT:Docs$"))
  @@ (<<"'", "Data", "'", "!", "C1">> :> OneCell("{{DATE}}"))
  @@ (<<"'", "Data", "'", "!", "E1:E2">> :>
        [values |-> <<<<"">>, <<" ">>>>, merges |-> <<>>,
         backgrounds |-> <<<<<<1, 1>>>>, <<<<2, 1>>>>>>])

\* the pieces of a cell's display text once it stands in the HTML (line 229)
CellPieces(cellText) ==
  CASE cellText = "$LINK:K1, TEXT:Docs$" -> <<"$", "LINK:", "K1", ",TEXT:", "Docs", "$">>
    [] cellText = "{{DATE}}" -> <<"{{", "DATE", "}}">>
    [] OTHER -> <<cellText>>

\* the string getHtmlTableFromSheet_ returns, as pieces
TableHtml(out) ==
  IF out.noData THEN <<"<p><i>(Table contains no data)</i></p>">>
  ELSE <<"<table>">>
       \o Flatten([i \in 1..Len(out.rows) |->
             <<"<tr>">>
             \o Flatten([k \in 1..Len(out.rows[i]) |->
                   <<"<td>">> \o CellPieces(out.rows[i][k].text) \o <<"</td>">>])
             \o <<"</tr>">>])
       \o <<"</table>">>

\* service calls of one table expansion that may raise
TableFaults == {"none", "SpreadsheetApp.openById", "ss.getRange", "sheet.getColumnWidth"}

\* a replace callback without the try/catch around it: the exception leaves
\* processTables
ExpandTableUnguarded(tag, fault) ==
  LET cleanRange == fixMissingQuotes_(TableTags[tag].range)
  IN IF TableTags[tag].ssId = ""
     THEN [raised |-> FALSE, html |-> <<"<p>[Table Error: Invalid Sheet Link]</p>">>]
     ELSE IF \/ fault # "none"
             \/ TableTags[tag].ssId \notin TableSheets
             \/ cleanRange \notin DOMAIN SheetRanges
     THEN [raised |-> TRUE, html |-> <<>>]
     ELSE [raised |-> FALSE, html |-> TableHtml(getHtmlTableFromSheet_(SheetRanges[cleanRange]))]

\* the replace callback of lines 21-56 for one tag
ExpandTable(tag, fault) ==
  LET ssId == TableTags[tag].ssId
      cleanRange == fixMissingQuotes_(TableTags[tag].range)
  IN IF ssId = ""
     THEN [raised |-> FALSE, html |-> <<"<p>[Table Error: Invalid Sheet Link]</p>">>]
     ELSE IF fault = "SpreadsheetApp.openById" \/ ssId \notin TableSheets
     THEN [raised |-> FALSE, html |-> <<"<p>(Table Error: openById)</p>">>]
     ELSE IF fault = "ss.getRange" \/ cleanRange \notin DOMAIN SheetRanges
     THEN [raised |-> FALSE, html |-> <<"<p>(Table Error: getRange)</p>">>]
     ELSE IF fault = "sheet.getColumnWidth"
     THEN [raised |-> FALSE, html |-> <<"<p>(Table Error: getColumnWidth)</p>">>]
     ELSE [raised |-> FALSE, html |-> TableHtml(getHtmlTableFromSheet_(SheetRanges[cleanRange]))]

\* bodyHtml.replace(regex, callback) from piece i on; n tags were replaced
\* before it, and the service fault strikes the tag number faultAt
RECURSIVE ProcessTablesFrom(_, _, _, _, _)
ProcessTablesFrom(bodyHtml, i, n, fault, faultAt) ==
  IF i > Len(bodyHtml) THEN [raised |-> FALSE, html |-> <<>>]
  ELSE LET isTag == bodyHtml[i] \in DOMAIN TableTags
           this == IF isTag
                   THEN ExpandTable(bodyHtml[i], IF n + 1 = faultAt THEN fault ELSE "none")
                   ELSE [raised |-> FALSE, html |-> <<bodyHtml[i]>>]
           rest == ProcessTablesFrom(bodyHtml, i + 1, IF isTag THEN n + 1 ELSE n, fault, faultAt)
       IN IF this.raised \/ rest.raised THEN [raised |-> TRUE, html |-> <<>>]
          ELSE [raised |-> FALSE, html |-> this.html \o rest.html]

processTables(bodyHtml, fault, faultAt) == ProcessTablesFrom(bodyHtml, 1, 0, fault, faultAt)

TablePieces == {"<p>Hi</p>"} \cup DOMAIN TableTags

ProcessTables ==
  /\ call = NoCall
  /\ \E bodyHtml \in SeqsUpTo(TablePieces, MaxBody), fault \in TableFaults, faultAt \in 1..2 :
       call' = [fn |-> "processTables", bodyHtml |-> bodyHtml, fault |-> fault,
                faultAt |-> faultAt, out |-> processTables(bodyHtml, fault, faultAt)]
  /\ UNCHANGED <<drafts, threads, directory, distroCacheData, distroCacheId, last, batch, now,
               properties, triggers>>

NextTables == ProcessTables \/ HelperReturns

SpecTables == InitHelpers /\ [][NextTables]_vars

\* ------------------------------------------------------- the body pipeline
\* fetchTemplate runs applyDictionary_ and then processTables on the body;
\* generateEmailDraft runs injectManagedLinks on the body fetchTemplate
\* returned.
ProcessBody(body, linkMap) ==
  injectManagedLinks(processTables(applyDictionary_(body), "none", 0).html, linkMap)

\* the pieces of a template body: text, a dictionary tag, a link tag, and
\* table tags for a plain cell, a cell holding a link tag and a cell holding
\* a dictionary tag
TemplatePieces == {"Hi", "{{DATE}}", "$LINK:K1, TEXT:Docs$", "tagA1", "tagB1", "tagC1"}

TemplateTokens(piece) ==
  IF piece \in {"{{DATE}}"} THEN DictTokens(piece) ELSE CellPieces(piece)

GenerateBody ==
  /\ call = NoCall
  /\ \E pieces \in SeqsUpTo(TemplatePieces, MaxBody), linkMap \in LinkMapChoices :
       LET body == Flatten([i \in 1..Len(pieces) |-> TemplateTokens(pieces[i])])
       IN call' = [fn |-> "processBody", pieces |-> pieces, linkMap |-> linkMap,
                   result |-> ProcessBody(body, linkMap)]
  /\ UNCHANGED <<drafts, threads, directory, distroCacheData, distroCacheId, last, batch, now,
               properties, triggers>>

NextBody == GenerateBody \/ HelperReturns

SpecBody == InitHelpers /\ [][NextBody]_vars

\* ------------------------------------------------------------- Scheduler
\* PropertiesService: props.setProperty(key, value)
setProperty(props, key, value) ==
  [k \in DOMAIN props \cup {key} |-> IF k = key THEN value ELSE props[k]]

\* PropertiesService: props.deleteProperty(key)
deleteProperty(props, key) ==
  [k \in DOMAIN props \ {key} |-> props[k]]

\* `SCHEDULE_${handlerFunction}`, the handler name being made of the
\* template name and of Date.now()
ScheduleKey(templateName, timestamp) ==
  <<"SCHEDULE_", "scheduledReport_", templateName, timestamp>>

\* `TRIGGER_${trigger.getUniqueId()}`
TriggerKey(triggerId) == <<"TRIGGER_", triggerId>>

IsScheduleKey(key) == key[1] = "SCHEDULE_"

IsTriggerKey(key) == key[1] = "TRIGGER_"

\* options.frequency.toLowerCase()
ToLowerCase(frequency) == IF frequency = "Daily" THEN "daily" ELSE frequency

\* validateTemplate(templateName).valid: the tab must exist in the document
TemplateValid(templateName) == templateName \in TabNames \ {"Missing"}

\* the range checks of the frequency switch; 0 stands for an option left
\* out, replaced by the default of its case (60, 1 and 1)
FrequencyAccepted(options) ==
  LET interval == IF options.everyMinutes = 0 THEN 60 ELSE options.everyMinutes
      dayOfWeek == IF options.dayOfWeek = 0 THEN 1 ELSE options.dayOfWeek
      dayOfMonth == IF options.dayOfMonth = 0 THEN 1 ELSE options.dayOfMonth
  IN CASE ToLowerCase(options.frequency) = "hourly" -> ~(interval < 1 \/ interval > 60)
       [] ToLowerCase(options.frequency) = "daily" -> TRUE
       [] ToLowerCase(options.frequency) = "weekly" -> ~(dayOfWeek < 1 \/ dayOfWeek > 7)
       [] ToLowerCase(options.frequency) = "monthly" -> ~(dayOfMonth < 1 \/ dayOfMonth > 31)
       [] OTHER -> FALSE

\* the configuration stored under the schedule key; dayOfMonth is added by
\* the monthly case after the trigger is created
ScheduleConfig(templateName, options, monthlySet) ==
  [templateName |-> templateName, frequency |-> options.frequency,
   dayOfMonth |-> IF monthlySet
                  THEN (IF options.dayOfMonth = 0 THEN 1 ELSE options.dayOfMonth)
                  ELSE 0]

\* scheduleReport(templateName, options) on the properties props and the
\* project triggers trigs at time timestamp; fault "create" is a trigger
\* that ScriptApp refuses to create
scheduleReport(templateName, options, props, trigs, timestamp, fault) ==
  IF templateName = "" \/ options.frequency = ""
     \/ (options.validateFirst /\ ~TemplateValid(templateName))
  THEN [success |-> FALSE, properties |-> props, triggers |-> trigs]
  ELSE LET scheduleKey == ScheduleKey(templateName, timestamp)
           stored == setProperty(props, scheduleKey,
                                 ScheduleConfig(templateName, options, FALSE))
       IN IF ~FrequencyAccepted(options) \/ fault = "create"
          THEN [success |-> FALSE, properties |-> stored, triggers |-> trigs]
          ELSE LET triggerId == timestamp
                   configured ==
                     IF ToLowerCase(options.frequency) = "monthly"
                     THEN setProperty(stored, scheduleKey,
                                      ScheduleConfig(templateName, options, TRUE))
                     ELSE stored
                   triggerData == [triggerId |-> triggerId,
                                   templateName |-> templateName,
                                   scheduleKey |-> scheduleKey]
               IN [success |-> TRUE,
                   properties |-> setProperty(configured, TriggerKey(triggerId), triggerData),
                   triggers |-> trigs \cup {[id |-> triggerId,
                                            handler |-> "handleScheduledReport_"]}]

\* the report triggers that have a TRIGGER_ entry (listActiveTriggers)
listActiveTriggers(props, trigs) ==
  {t \in trigs : /\ t.handler = "handleScheduledReport_"
                 /\ TriggerKey(t.id) \in DOMAIN props}

\* the properties once the entries of the triggers in cleared are removed
RECURSIVE CleanUp(_, _)
CleanUp(props, cleared) ==
  IF cleared = {} THEN props
  ELSE LET t == CHOOSE x \in cleared : TRUE
           triggerData == props[TriggerKey(t.id)]
       IN CleanUp(deleteProperty(deleteProperty(props, triggerData.scheduleKey),
                                 TriggerKey(t.id)),
                  cleared \ {t})

\* clearTriggerByTemplate(templateName)
clearTriggerByTemplate(templateName, props, trigs) ==
  LET cleared == {t \in listActiveTriggers(props, trigs) :
                    props[TriggerKey(t.id)].templateName = templateName}
  IN [cleared |-> Cardinality(cleared),
      properties |-> CleanUp(props, cleared),
      triggers |-> trigs \ cleared]

\* clearAllTriggers(requireConfirmation); response is the button of the
\* dialog, "noUi" when the script has no user interface
clearAllTriggers(requireConfirmation, response, props, trigs) ==
  LET schedules == listActiveTriggers(props, trigs)
      reports == {t \in trigs : t.handler = "handleScheduledReport_"}
  IN IF schedules = {} \/ (requireConfirmation /\ response = "NO")
     THEN [cleared |-> 0, properties |-> props, triggers |-> trigs]
     ELSE [cleared |-> Cardinality(reports),
           properties |-> CleanUp(props, schedules),
           triggers |-> trigs \ reports]

ScheduleNames == TabNames \cup {""}

Frequencies == {"", "hourly", "Daily", "weekly", "monthly", "yearly"}

EveryMinutesChoices == {0, 30, 61}

DayOfWeekChoices == {0, 8}

DayOfMonthChoices == {0, 15, 32}

ScheduleFaults == {"none", "create"}

Responses == {"YES", "NO", "noUi"}

\* one call of scheduleReport; Date.now() has moved on since the last call
ScheduleReport ==
  /\ call = NoCall
  /\ now < MaxCalls
  /\ \E templateName \in ScheduleNames, frequency \in Frequencies,
        everyMinutes \in EveryMinutesChoices, dayOfWeek \in DayOfWeekChoices,
        dayOfMonth \in DayOfMonthChoices, validateFirst \in BOOLEAN,
        fault \in ScheduleFaults :
       LET options == [frequency |-> frequency, everyMinutes |-> everyMinutes,
                       dayOfWeek |-> dayOfWeek, dayOfMonth |-> dayOfMonth,
                       validateFirst |-> validateFirst]
           r == scheduleReport(templateName, options, properties, triggers,
                               now + 1, fault)
       IN /\ properties' = r.properties
          /\ triggers' = r.triggers
          /\ call' = [fn |-> "scheduleReport", success |-> r.success]
  /\ now' = now + 1
  /\ UNCHANGED <<drafts, threads, directory, distroCacheData, distroCacheId, last, batch>>

\* one call of clearTriggerByTemplate
ClearTriggerByTemplate ==
  /\ call = NoCall
  /\ \E templateName \in ScheduleNames :
       LET r == clearTriggerByTemplate(templateName, properties, triggers)
       IN /\ properties' = r.properties
          /\ triggers' = r.triggers
          /\ call' = [fn |-> "clearTriggerByTemplate", cleared |-> r.cleared]
  /\ UNCHANGED <<drafts, threads, directory, distroCacheData, distroCacheId, last, batch, now>>

\* one call of clearAllTriggers
ClearAllTriggers ==
  /\ call = NoCall
  /\ \E requireConfirmation \in BOOLEAN, response \in Responses :
       LET r == clearAllTriggers(requireConfirmation, response, properties, triggers)
       IN /\ properties' = r.properties
          /\ triggers' = r.triggers
          /\ call' = [fn |-> "clearAllTriggers", cleared |-> r.cleared]
  /\ UNCHANGED <<drafts, threads, directory, distroCacheData, distroCacheId, last, batch, now>>

NextScheduler ==
  ScheduleReport \/ ClearTriggerByTemplate \/ ClearAllTriggers \/ HelperReturns

SpecScheduler == InitHelpers /\ [][NextScheduler]_vars

\* ------------------------------------------------------------ properties
Ran == last.op = "generateEmailDraft"
Mutations(calls) == SelectSeq(calls, LAMBDA c : c \in MutationCalls)
EmailAction(config) == IF "emailAction" \in DOMAIN config THEN config.emailAction ELSE "DRAFT"

\* C1: a real run that starts with a live draft whose subject contains the
\* resolved subject never adds another such draft (it updates the existing one
\* and returns its id), and no run adds more than one: over N sequential runs
\* of the same template the number of matching live drafts grows by at most 1.
C1_AtMostOneLiveDraft ==
  (Ran /\ last.found /\ ~last.dryRun) =>
     /\ last.liveAfter <= last.liveBefore + 1
     /\ (last.liveBefore >= 1 /\ last.outcome = "returned") =>
           /\ last.liveAfter = last.liveBefore
           /\ last.logged = <<"UPDATED">>
           /\ last.draftId = last.matched

\* C2: a real run that completes the decision step performs exactly one
\* mailbox mutation, chosen by strict priority: update of a matching draft,
\* else reply-all on the first thread found that is no auto-reply, else a new
\* draft; an auto-reply thread is never the reply target.
C2_ExactlyOneTargetByPriority ==
  (Ran /\ last.found /\ ~last.dryRun /\ last.outcome = "returned") =>
     LET muts == Mutations(last.calls)
         t == TargetThread(threads, GmailSearch(threads, last.subject, SEARCH_LIMIT))
     IN /\ Len(muts) = 1
        /\ (last.liveBefore >= 1) => muts = <<"draft.update">>
        /\ (last.liveBefore = 0 /\ t # 0) =>
              /\ muts = <<"thread.createDraftReplyAll">>
              /\ drafts[last.draftId].thread = t
        /\ (last.liveBefore = 0 /\ t = 0) => muts = <<"GmailApp.createDraft">>
        /\ \A i \in 1..Len(drafts) :
              drafts[i].thread # 0 => ~IsAutoReply(threads[drafts[i].thread].subject)

\* C3: when resolving the template's To keys yields no recipient, the run
\* performs no mailbox mutation.
C3_NoRecipientsNoMutation ==
  (Ran /\ last.found /\ last.resolvedTo = <<>>) =>
     /\ Mutations(last.calls) = <<>>
     /\ ~last.changed

\* C4 as stated: a dry run calls no mutating mailbox operation, leaves the
\* drafts unchanged and returns draftId = null together with a simulation
\* object.
C4_DryRunReturnsSimulation ==
  (Ran /\ last.dryRun) =>
     /\ Mutations(last.calls) = <<>>
     /\ ~last.changed
     /\ last.outcome = "returned"
     /\ last.draftId = NullId
     /\ last.simulation.present

\* C4 amended: a dry run calls no mutating mailbox operation and leaves the
\* drafts unchanged; when it returns, draftId is null, and the simulation
\* object is present exactly when the template was found.
C4_DryRunFrame ==
  (Ran /\ last.dryRun) =>
     /\ Mutations(last.calls) = <<>>
     /\ ~last.changed
     /\ last.outcome = "returned" =>
          /\ last.draftId = NullId
          /\ last.simulation.present = last.found

\* a dry run of a found template in a mailbox where a real run would have
\* updated a live draft
C4_Witness ==
  /\ Ran /\ last.dryRun /\ last.found
  /\ last.simulation.actions = <<"Would UPDATE existing draft">>
  /\ last.liveBefore >= 1

\* C5: in test mode every draft the run updates or creates is addressed to
\* the operator only, with an empty Cc.
C5_TestModeOperatorOnly ==
  (Ran /\ last.testMode /\ ~last.dryRun /\ last.outcome = "returned" /\ last.draftId # NullId) =>
     /\ drafts[last.draftId].to = <<OPERATOR_EMAIL>>
     /\ drafts[last.draftId].cc = <<>>

\* C6: with emailAction "SEND" a successful real run transmits the draft it
\* updated or created, leaving no pending draft for the subject; with "DRAFT"
\* nothing is transmitted.
C6_SendTransmits ==
  (Ran /\ ~last.dryRun /\ last.outcome = "returned" /\ last.success) =>
     IF EmailAction(last.config) = "SEND"
     THEN "draft.send" \in Range(last.calls) /\ last.liveAfter = 0
     ELSE "draft.send" \notin Range(last.calls)

\* C7: a mailbox action that fails during a real run is raised to the caller
\* after being logged, and no other mailbox call follows it.
C7_FailureRaisedNoFallback ==
  (Ran /\ ~last.dryRun /\ last.raised \in MailboxCalls \ {"GmailApp.search"}) =>
     /\ last.outcome = "thrown"
     /\ last.logLines # <<>>
     /\ last.calls[Len(last.calls)] = last.raised

\* C8: a run whose configuration does not validate makes no external call.
C8_InvalidConfigNoExternalCall ==
  (Ran /\ ~validateConfig(last.config).valid) =>
     /\ last.calls = <<>>
     /\ ~last.changed

\* C9: an item's exception never ends the batch: when the loop is left, every
\* item before the time-skipped tail has been processed, every failure is in
\* errors, and successful + failed + skipped is the number of names; a batch
\* of 5 whose 3rd item alone fails (a lookup error) ends with 4 and 1.
C9_BatchSurvivesItemFailure ==
  /\ (batch.pc \in {"exit", "done"}) =>
        /\ batch.successful + batch.failed + batch.skipped = Len(batch.templateNames)
        /\ batch.i + batch.skipped = Len(batch.templateNames)
        /\ Len(batch.errors) = batch.failed
  /\ (batch.pc = "loop") => batch.skipped = 0 /\ batch.i < Len(batch.templateNames)
  /\ (/\ batch.pc = "done"
      /\ batch.templateNames = <<"Ops", "Ops", "Missing", "Ops", "Ops">>
      /\ batch.skipped = 0
      /\ SelectSeq(batch.logged, LAMBDA x : x = "BATCH_ERROR") = <<"BATCH_ERROR">>) =>
        /\ batch.successful = 4 /\ batch.failed = 1
        /\ batch.errors = <<"Missing">>
        /\ batch.logged = <<"BATCH_CREATED", "BATCH_CREATED", "BATCH_ERROR",
                            "BATCH_CREATED", "BATCH_CREATED", "BATCH_COMPLETE">>

\* a finished batch of 5 whose 3rd template was not found
C9_Witness ==
  /\ batch.pc = "done"
  /\ batch.templateNames = <<"Ops", "Ops", "Missing", "Ops", "Ops">>
  /\ batch.successful = 4 /\ batch.failed = 1 /\ batch.skipped = 0
  /\ Len(drafts) >= 4

\* C10: an item is started only while the elapsed time is within the safety
\* margin; once the margin is exceeded the loop is left, the remaining items
\* are counted as skipped and not as failed, every started item has run to
\* its outcome, and nothing is processed after a skip.
C10_SoftDeadline ==
  /\ batch.lastStartedAt <= MAX_EXECUTION_TIME
  /\ batch.successful + batch.failed = batch.i
  /\ Len(SelectSeq(batch.logged, LAMBDA x : x # "BATCH_COMPLETE")) = batch.i
  /\ (batch.skipped > 0) =>
        /\ batch.skipAt > MAX_EXECUTION_TIME
        /\ batch.pc \in {"exit", "done"}
        /\ batch.skipped = Len(batch.templateNames) - batch.i
  /\ (batch.pc \in {"exit", "done"} /\ batch.skipped = 0) => batch.i = Len(batch.templateNames)

\* a batch whose last started item began inside the margin and ended beyond
\* it, after which the rest was skipped
C10_Witness ==
  /\ batch.pc = "done"
  /\ batch.i >= 1 /\ batch.skipped >= 1
  /\ batch.lastStartedAt > 0
  /\ batch.successful >= 1

\* C11: a batch item whose template resolves to a subject for which a live
\* draft already exists (a draft whose subject contains it) creates no new
\* draft: the number of drafts is the same after the item as before it.
C11_BatchRecyclesDraft ==
  [][ (batch.pc = "loop" /\ batch'.i = batch.i + 1) =>
        LET templateName == batch.templateNames[batch.i + 1]
        IN (/\ templateName \in DOMAIN TemplateDoc
            /\ LiveDrafts(drafts, TemplateDoc[templateName].subject) >= 1)
              => Len(drafts') = Len(drafts) ]_vars

\* the call under observation is a resolveRecipients call with arguments
Resolved == call.fn = "resolveRecipients" /\ Len(call.args) > 0

NoDuplicates(s) == Cardinality(Range(s)) = Len(s)
Literals(args) == {a \in Range(args) : IsAddress(a)}
RoleKeys(args) == {a \in Range(args) : ~IsAddress(a)}

\* the email value of every row of a table (header row first) in which any
\* of the tag columns equals any requested role key
MatchedEmails(table, emailCol, tagCols, keys) ==
  LET headers == Head(table)
      e == IndexOf(headers, emailCol)
      tagIdx == {IndexOf(headers, col) : col \in Range(tagCols)} \ {0}
  IN IF e = 0 THEN {}
     ELSE {table[r][e] : r \in {q \in 2..Len(table) : \E i \in tagIdx : table[q][i] \in keys}}

\* the rows the call's own config names, none when it names no readable tab
ConfiguredMatches(config, args, dir) ==
  IF /\ config.directorySheetId \in DOMAIN dir
     /\ config.recipientsTabName \in DOMAIN dir[config.directorySheetId]
  THEN MatchedEmails(dir[config.directorySheetId][config.recipientsTabName],
                     config.recipientEmailColumn, config.recipientTagColumns, RoleKeys(args))
  ELSE {}

\* C12 as stated: for any directory contents and any argument list the
\* result is exactly the duplicate-free union of the emails of the rows that
\* match a requested key in a configured tag column and of every literal
\* address argument.
C12_UnionForAnyDirectory ==
  Resolved =>
     /\ NoDuplicates(call.result)
     /\ Range(call.result) =
          ConfiguredMatches(call.config, call.args, directory) \cup Literals(call.args)

\* C12 amended: the result has no duplicates; a call that loads the directory
\* returns exactly the matched emails of the configured tab plus the literal
\* addresses; a call served from the cache returns the same union over the
\* cached rows and column positions; a call whose load fails returns the
\* empty list, literal addresses included, and leaves the cache as it was.
C12_UnionWhenLoaded ==
  Resolved =>
     /\ NoDuplicates(call.result)
     /\ (call.opened /\ DirectoryLoads(call.config, directory)) =>
          Range(call.result) =
            ConfiguredMatches(call.config, call.args, directory) \cup Literals(call.args)
     /\ (call.opened /\ ~DirectoryLoads(call.config, directory)) =>
          /\ call.result = <<>>
          /\ distroCacheData = call.before.data /\ distroCacheId = call.before.id
     /\ ~call.opened =>
          LET c == call.before.data
          IN Range(call.result) =
               {c.rows[r][c.emailIndex] :
                  r \in {q \in 1..Len(c.rows) :
                           \E k \in 1..Len(c.tagIndices) :
                              c.rows[q][c.tagIndices[k]] \in RoleKeys(call.args)}}
               \cup Literals(call.args)

\* a loading call for a role that two rows carry in different tag columns,
\* together with a literal address that no row holds
C12_Witness ==
  /\ Resolved /\ call.opened
  /\ call.args = <<"RoleA", "boss@x">>
  /\ call.result = <<"a@x", "b@x", "boss@x">>

\* every cell of every tab of a directory spreadsheet
SheetCells(dir, sheetId) ==
  IF sheetId \notin DOMAIN dir THEN {}
  ELSE UNION {UNION {Range(dir[sheetId][t][r]) : r \in 1..Len(dir[sheetId][t])} :
                t \in DOMAIN dir[sheetId]}

C14_UnknownSpansByteIdentical ==
  (call.fn = "applyDictionary_") =>
     call.result = ReplaceSpans(call.text, 1, "unknown spans as in the source")

\* C15: a bare weekday name resolves to the first date on or after today
\* that falls on that weekday: today itself when today is that weekday, and
\* never a date before today.
C15_BareWeekdayOnOrAfterToday ==
  (call.fn = "parseDateToken_" /\ Len(call.text) = 1 /\ call.text[1] \in Range(days)) =>
     /\ days[getDay(call.result) + 1] = call.text[1]
     /\ call.result >= call.today
     /\ call.result < call.today + 7

\* C16: `next <weekday>` falls on that weekday, strictly after today; on
\* 15-Feb-2026 `Next Monday` is 16-Feb-2026, the day after.
C16_NextMondayExample ==
  (call.fn = "parseDateToken_" /\ Len(call.text) = 2 /\ call.text[1] = "next"
     /\ call.text[2] \in Range(days)) =>
     /\ days[getDay(call.result) + 1] = call.text[2]
     /\ call.result > call.today
     /\ (call.today = README_TODAY /\ call.text[2] = "monday") =>
           call.result = README_TODAY + 1

Rendered == call.fn = "getHtmlTableFromSheet_"

\* the number of trailing rows of the fetched range that are blank: every
\* cell is empty once surrounding white space is removed
TrailingEmptyRows(values) ==
  Cardinality({i \in 1..Len(values) : \A k \in i..Len(values) : IsRowEmpty(values[k])})

\* the number of trailing rows whose cells are all the empty string
TrailingEmptyStringRows(values) ==
  Cardinality({i \in 1..Len(values) :
                 \A k \in i..Len(values) : \A j \in 1..Len(values[k]) : values[k][j] = ""})

\* the rendered table is the first `kept` rows of the range, each emitted
\* cell carrying the text and the formatting of its own source cell
RendersFirstRows(kept) ==
  LET values == call.range.values
  IN /\ Len(call.out.rows) = kept
     /\ Len(call.out.cellMeta) = kept
     /\ call.out.noData = (kept = 0)
     /\ \A i \in 1..Len(call.out.rows) : \A k \in 1..Len(call.out.rows[i]) :
           LET cell == call.out.rows[i][k]
           IN /\ cell.text = values[i][cell.col]
              /\ cell.style = call.range.backgrounds[i][cell.col]
     /\ (call.range.merges = <<>>) =>
           \A i \in 1..Len(call.out.rows) : Len(call.out.rows[i]) = Len(values[i])

\* C17 (as stated): the rendered table has exactly rows - K row elements, K
\* being the number of trailing rows that are entirely empty strings; they
\* are the first rows - K rows of the range in order, and every emitted cell
\* carries the text and the formatting of its own source cell.
C17_TrailingEmptyStringRowsTrimmed ==
  Rendered => RendersFirstRows(Len(call.range.values) - TrailingEmptyStringRows(call.range.values))

\* C17 (amended): the same with K the number of trailing rows that are blank,
\* a cell holding only white space counting as empty; blank rows above a
\* non-blank row are kept.
C17_OnlyTrailingEmptyRowsTrimmed ==
  Rendered => RendersFirstRows(Len(call.range.values) - TrailingEmptyRows(call.range.values))

\* a range of three rows, empty / data / empty, rendered as its first two
C17_Witness ==
  /\ Rendered
  /\ Len(call.range.values) = 3
  /\ IsRowEmpty(call.range.values[1]) /\ ~IsRowEmpty(call.range.values[2])
  /\ call.range.values[3] = <<" ", "">>
  /\ Len(call.out.rows) = 2

\* C18: for a range that contains one merged region of R rows by C columns
\* the merge map has the region's top-left cell as its only anchor, with
\* rowSpan = R and colSpan = C, and exactly R*C - 1 cells marked skip; the
\* table emits R*C - 1 cells fewer than the grid has positions, and every
\* other cell has span 1x1.
C18_SingleMergedRegion ==
  (Rendered /\ Len(call.range.merges) = 1 /\ ~call.out.noData) =>
     LET m == call.range.merges[1]
         meta == call.out.cellMeta
         cells == {q \in (1..Len(meta)) \X (1..Len(call.range.values[1])) : TRUE}
         emitted == {<<i, call.out.rows[i][k].col>> :
                       <<i, k>> \in {q \in (1..Len(meta)) \X (1..Len(call.range.values[1])) :
                                       q[2] <= Len(call.out.rows[q[1]])}}
     IN /\ <<m.row + 1, m.col + 1>> \in cells
        /\ \A q \in cells :
              meta[q[1]][q[2]] =
                IF q = <<m.row + 1, m.col + 1>>
                THEN [rowSpan |-> m.numRows, colSpan |-> m.numCols, skip |-> FALSE]
                ELSE IF /\ m.row < q[1] /\ q[1] <= m.row + m.numRows
                        /\ m.col < q[2] /\ q[2] <= m.col + m.numCols
                THEN [rowSpan |-> 1, colSpan |-> 1, skip |-> TRUE]
                ELSE [rowSpan |-> 1, colSpan |-> 1, skip |-> FALSE]
        /\ Cardinality({q \in cells : meta[q[1]][q[2]].skip}) = m.numRows * m.numCols - 1
        /\ emitted = {q \in cells : ~meta[q[1]][q[2]].skip}

\* C19: fixMissingQuotes_ leaves a range that starts with a quote and a
\* range without '!' unchanged, wraps everything before the last '!' in
\* single quotes otherwise, and applying it twice gives what applying it
\* once gives; `Data Sheet!A1:B2` becomes `'Data Sheet'!A1:B2` and
\* `'My Sheet'!A1:B10` is unchanged.
C19_QuotesSheetNameIdempotent ==
  (call.fn = "fixMissingQuotes_") =>
     LET r == call.rangeStr
         quoted == Len(r) > 0 /\ r[1] = "'"
         bangs == {i \in 1..Len(r) : r[i] = "!"}
     IN /\ (quoted \/ bangs = {}) => call.result = r
        /\ (~quoted /\ bangs # {}) =>
              \E k \in bangs :
                 /\ \A i \in bangs : i <= k
                 /\ call.result = <<"'">> \o SubSeq(r, 1, k - 1) \o <<"'", "!">>
                                      \o SubSeq(r, k + 1, Len(r))
        /\ call.again = call.result
        /\ (r = <<"Data Sheet", "!", "A1:B2">>) =>
              call.result = <<"'", "Data Sheet", "'", "!", "A1:B2">>
        /\ (r = <<"'", "My Sheet", "'", "!", "A1:B10">>) => call.result = r

\* a range with two '!' and no leading quote, quoted up to the last '!'
C19_Witness ==
  /\ call.fn = "fixMissingQuotes_"
  /\ call.rangeStr = <<"Data Sheet", "!", "My Sheet", "!", "A1:B2">>
  /\ call.result = <<"'", "Data Sheet", "!", "My Sheet", "'", "!", "A1:B2">>
  /\ call.again = call.result

TextPieces(text) == [i \in 1..Len(text) |-> TextPiece(text[i])]

\* what a tag with the given cleaned key and label is to become: the map
\* entry of the key when there is one, else the key when it is a URL, else
\* the marker naming the key
ExpectedLink(key, label, linkMap) ==
  IF \E e \in linkMap : e.key = key
  THEN [kind |-> "a", href |-> (CHOOSE e \in linkMap : e.key = key).url, text |-> label]
  ELSE IF IsUrl(key)
  THEN [kind |-> "a", href |-> key, text |-> label]
  ELSE [kind |-> "missing", href |-> <<>>, text |-> key]

\* C20: every $LINK:<key>, TEXT:<label>$ tag becomes an anchor to the key's
\* entry in the link map when there is one, else an anchor to the key itself
\* when the key is a URL, else a missing-link marker naming the key; the
\* rest of the body is left as it is, and no anchor has an empty target.
C20_LinkResolutionOrder ==
  (call.fn = "injectManagedLinks") =>
     /\ call.tagged =>
           call.result =
              TextPieces(call.head)
              \o <<ExpectedLink(CleanLinkPart(call.keyPart), CleanLinkPart(call.textPart),
                                call.linkMap)>>
              \o (IF call.tail = SecondTag
                  THEN <<ExpectedLink(<<"K1">>, <<"Docs">>, call.linkMap)>>
                  ELSE TextPieces(call.tail))
     /\ ~call.tagged => call.result = TextPieces(call.bodyText)
     /\ \A i \in 1..Len(call.result) :
           call.result[i].kind = "a" =>
              /\ call.result[i].href # <<>>
              /\ \/ \E e \in call.linkMap : e.url = call.result[i].href
                 \/ IsUrl(call.result[i].href)

\* C21: every execution of generateEmailDraft, however it ends, hands exactly
\* one record to the execution log, and the record's status matches the
\* outcome: UPDATED for an updated draft, CREATED for a created one, DRY_RUN
\* for a dry run with any reported action, ERROR for a template that was
\* not found and for a raised mailbox failure.
C21_ExactlyOneLogRecord ==
  (last.op = "generateEmailDraft" /\ last.raised # "DocumentApp.openById") =>
     /\ Len(last.logged) = 1
     /\ last.logged[1] =
           (IF ~last.found \/ last.outcome = "thrown" THEN "ERROR"
            ELSE IF last.dryRun THEN "DRY_RUN"
            ELSE IF last.matched # 0 /\ last.draftId = last.matched THEN "UPDATED"
            ELSE "CREATED")

\* the action a real run of the same template, with the same configuration
\* and test mode, chooses in the current mailbox state
RealRunAction ==
  LET real == generateEmailDraft(last.templateTabName,
                 [dryRun |-> FALSE, testMode |-> last.testMode] @@ last.config, "none").obs
  IN IF "draft.update" \in Range(real.calls) THEN "Would UPDATE existing draft"
     ELSE IF "thread.createDraftReplyAll" \in Range(real.calls)
     THEN "Would CREATE reply draft on thread"
     ELSE "Would CREATE new draft"

\* C22: in every mailbox state the action a dry run reports (update the
\* existing draft, reply on a thread, create a new draft) is the action a
\* real run chooses in that state, threads whose original subject is an
\* out-of-office or auto-reply subject being skipped by both.
C22_DryRunReportsRealAction ==
  (/\ last.op = "generateEmailDraft" /\ last.dryRun /\ last.found
   /\ last.outcome = "returned" /\ last.raised = "none") =>
     last.simulation.actions = <<RealRunAction>>

\* C23: the recipients an invocation of generateEmailDraft resolves are those
\* of the directory as it is at that invocation, whatever an earlier
\* invocation cached: for a configuration whose directory tab can be read
\* they equal what a load of the current directory gives.
C23_NoCacheAcrossInvocations ==
  (/\ last.op = "generateEmailDraft" /\ last.found
   /\ DirectoryLoads(last.config, directory)) =>
     last.resolvedTo =
        resolveRecipients(last.config, parseRecipientKeys(TemplateDoc[last.templateTabName].to),
                          NoData, "", directory).result

TableErrorAnnotations ==
  {"<p>[Table Error: Invalid Sheet Link]</p>", "<p>(Table Error: openById)</p>",
   "<p>(Table Error: getRange)</p>", "<p>(Table Error: getColumnWidth)</p>"}

\* the number of table tags among the first i pieces of a body
TagsUpTo(bodyHtml, i) == Cardinality({k \in 1..i : bodyHtml[k] \in DOMAIN TableTags})

\* the tag at piece i cannot be extracted or rendered
TableFails(bodyHtml, i, fault, faultAt) ==
  \/ TableTags[bodyHtml[i]].ssId \notin TableSheets
  \/ (IF TableTags[bodyHtml[i]].range[1] = "'" THEN TableTags[bodyHtml[i]].range
       ELSE <<"'", TableTags[bodyHtml[i]].range[1], "'">> \o Tail(TableTags[bodyHtml[i]].range))
        \notin DOMAIN SheetRanges
  \/ (fault # "none" /\ TagsUpTo(bodyHtml, i) = faultAt)

\* what may stand for piece i in the result: the piece itself, one error
\* annotation for a tag that fails, the rendered table for a tag that works
ExpectedPiece(bodyHtml, i, fault, faultAt) ==
  IF bodyHtml[i] \notin DOMAIN TableTags THEN {<<bodyHtml[i]>>}
  ELSE IF TableFails(bodyHtml, i, fault, faultAt) THEN {<<a>> : a \in TableErrorAnnotations}
  ELSE {TableHtml(getHtmlTableFromSheet_(
          SheetRanges[IF TableTags[bodyHtml[i]].range[1] = "'" THEN TableTags[bodyHtml[i]].range
                      ELSE <<"'", TableTags[bodyHtml[i]].range[1], "'">>
                             \o Tail(TableTags[bodyHtml[i]].range)]))}

RECURSIVE ExpectedBodies(_, _, _, _)
ExpectedBodies(bodyHtml, i, fault, faultAt) ==
  IF i > Len(bodyHtml) THEN {<<>>}
  ELSE {a \o b : a \in ExpectedPiece(bodyHtml, i, fault, faultAt),
                  b \in ExpectedBodies(bodyHtml, i + 1, fault, faultAt)}

\* C27: processTables never raises; in its result every table tag that
\* cannot be extracted or rendered (no spreadsheet id, unreadable
\* spreadsheet, invalid range, a failure while the HTML is generated) is
\* replaced by one inline error annotation, every other table tag of the
\* body by its table, and the pieces around the tags are unchanged.
C27_TableErrorsStayInline ==
  (call.fn = "processTables") =>
     /\ ~call.out.raised
     /\ call.out.html \in ExpectedBodies(call.bodyHtml, 1, call.fault, call.faultAt)

\* a body whose first table names an unreadable spreadsheet and whose second
\* table renders
C27_Witness ==
  /\ call.fn = "processTables"
  /\ call.bodyHtml = <<"tagBadSheet", "<p>Hi</p>", "tagA1">>
  /\ call.fault = "none"
  /\ call.out.html = <<"<p>(Table Error: openById)</p>", "<p>Hi</p>",
                        "<table>", "<tr>", "<td>", "x", "</td>", "</tr>", "</table>">>

\* what a piece of a text is to become: ERROR for the tag whose evaluation
\* fails, the value for a tag that evaluates, the piece itself otherwise
ExpectedDictPiece(piece) ==
  CASE piece = "{{DATE}}" -> <<"15-Feb-2026">>
    [] piece = "{{GREETING}}" -> <<"Good Morning">>
    [] piece = "{{DATE_FORMAT::Q}}" -> <<"ERROR">>
    [] OTHER -> DictTokens(piece)

\* C26: in applyDictionary_ a tag whose evaluation fails is rendered as
\* ERROR, every other tag of the same text is substituted with its normal
\* value, the text outside the tags is unchanged, and the call returns.
C26_TagErrorConfined ==
  (call.fn = "applyDictionary_" /\ "pieces" \in DOMAIN call) =>
     call.result = Flatten([i \in 1..Len(call.pieces) |-> ExpectedDictPiece(call.pieces[i])])

\* a failing tag between two tags that evaluate
C26_Witness ==
  /\ call.fn = "applyDictionary_" /\ "pieces" \in DOMAIN call
  /\ call.pieces = <<"{{DATE}}", "{{DATE_FORMAT::Q}}", "{{GREETING}}">>
  /\ call.result = <<"15-Feb-2026", "ERROR", "Good Morning">>

\* what a piece of the template body is to become when links are resolved
\* before tables are expanded: the text of a fetched cell stands in the
\* result as it stands in the sheet
ExpectedBodyPiece(piece, linkMap) ==
  IF piece = "$LINK:K1, TEXT:Docs$" THEN <<ExpectedLink(<<"K1">>, <<"Docs">>, linkMap)>>
  ELSE IF piece \in DOMAIN TableTags
  THEN TextPieces(TableHtml(getHtmlTableFromSheet_(
         SheetRanges[<<"'", TableTags[piece].range[1], "'">> \o Tail(TableTags[piece].range)])))
  ELSE TextPieces(ExpectedDictPiece(piece))

\* C25: the body is processed in the order dictionary substitution, link
\* injection, table expansion, so that the tags of the template are
\* substituted and the text of fetched spreadsheet cells is subject neither
\* to dictionary-tag nor to link-tag substitution.
C25_CellsNotSubstituted ==
  (call.fn = "processBody") =>
     call.result =
        Flatten([i \in 1..Len(call.pieces) |-> ExpectedBodyPiece(call.pieces[i], call.linkMap)])

\* the mode flags passed to generateBatchDrafts in sharedOverrides
BatchFlag(flag) == flag \in DOMAIN batch.config /\ batch.config[flag] = TRUE

\* C28: a batch started with dryRun = true creates and changes no draft, and
\* every draft created by a batch started with testMode = true is addressed
\* to the current operator only.
C28_BatchHonoursModes ==
  [][(batch.pc = "loop") =>
       /\ BatchFlag("dryRun") => drafts' = drafts
       /\ BatchFlag("testMode") =>
             \A i \in (Len(drafts) + 1)..Len(drafts') :
                drafts'[i].to = <<OPERATOR_EMAIL>> /\ drafts'[i].cc = <<>>]_vars

\* the emitted cells of the rendered table, each with its grid position
EmittedCells ==
  {[row |-> i, cell |-> call.out.rows[i][k]] :
     <<i, k>> \in {q \in (1..Len(call.out.rows)) \X (1..Len(call.range.values[1])) :
                     q[2] <= Len(call.out.rows[q[1]])}}

\* C29: the emitted cells tile the trimmed grid: every grid position lies in
\* the rowspan x colspan rectangle of exactly one emitted cell, and no
\* rectangle reaches past the last row or the last column of the grid.
C29_CellsTileTheGrid ==
  (Rendered /\ ~call.out.noData) =>
     LET numRows == Len(call.out.rows)
         numCols == Len(call.range.values[1])
         covers(e, i, j) == /\ e.row <= i /\ i < e.row + e.cell.rowSpan
                            /\ e.cell.col <= j /\ j < e.cell.col + e.cell.colSpan
     IN /\ \A i \in 1..numRows, j \in 1..numCols :
              Cardinality({e \in EmittedCells : covers(e, i, j)}) = 1
        /\ \A e \in EmittedCells :
              /\ e.row + e.cell.rowSpan - 1 <= numRows
              /\ e.cell.col + e.cell.colSpan - 1 <= numCols

\* the stored SCHEDULE_ keys
ScheduleEntries == {k \in DOMAIN properties : IsScheduleKey(k)}

\* the stored TRIGGER_ keys
TriggerEntries == {k \in DOMAIN properties : IsTriggerKey(k)}

\* C30: after any sequence of scheduleReport, clearTriggerByTemplate and
\* clearAllTriggers calls the registry is consistent with the live triggers:
\* every stored SCHEDULE_ entry is referenced by exactly one stored TRIGGER_
\* entry, every TRIGGER_ entry belongs to a live trigger, and a
\* scheduleReport call that fails leaves the stored properties and the set
\* of triggers as they were before the call.
C30_RegistryConsistent ==
  /\ [](/\ \A s \in ScheduleEntries :
              Cardinality({t \in TriggerEntries : properties[t].scheduleKey = s}) = 1
        /\ \A t \in TriggerEntries :
              \E trigger \in triggers : trigger.id = properties[t].triggerId)
  /\ [][(call'.fn = "scheduleReport" /\ ~call'.success)
          => (properties' = properties /\ triggers' = triggers)]_vars

====
